---------------------------- MODULE Spec2Model ----------------------------
(***************************************************************************)
(* A model of gotetra's density deposition engine (package density), of    *)
(* the tetrahedron orientation of package los/geom, and of the helpers     *)
(* they use.                                                               *)
(*                                                                         *)
(* Floating-point numbers are modelled as exact rationals [n, d] in lowest *)
(* terms (d > 0); the value [n |-> 1, d |-> 0] stands for the +Inf that a  *)
(* float64 division by zero produces.  Rounding is not modelled.           *)
(***************************************************************************)
EXTENDS Integers, Sequences, FiniteSets, TLC

(***************************************************************************)
(* Bounds of the model.                                                    *)
(***************************************************************************)
\* masses are 1..MaxMass
MaxMass == 2
\* a point-based call takes at most MaxPts points
MaxPts == 2
\* the largest Flag / PointSelectorFlag value handed to a constructor
MaxFlag == 2
\* a tetra-based call takes the ids 0 .. n-1 for an n in 1 .. MaxIds
MaxIds == 2
\* MonteCarlo and SobolSequence are built with 1 .. MaxSteps steps
MaxSteps == 1
\* the particles form a lattice of CountWidth^3 ids
CountWidth == 2

(***************************************************************************)
(* float64 arithmetic, as exact rationals.                                 *)
(***************************************************************************)
Abs(a) == IF a < 0 THEN -a ELSE a

RECURSIVE GCD(_, _)
GCD(a, b) == IF b = 0 THEN a ELSE GCD(b, a % b)

Inf == [n |-> 1, d |-> 0]

R(n, d) ==
    IF d = 0 THEN Inf
    ELSE LET g == GCD(Abs(n), Abs(d))
             s == IF d < 0 THEN -1 ELSE 1
         IN  [n |-> (s * n) \div g, d |-> (s * d) \div g]

Zero == R(0, 1)
One == R(1, 1)
RInt(i) == R(i, 1)

RAdd(a, b) == IF a.d = 0 \/ b.d = 0 THEN Inf ELSE R(a.n * b.d + b.n * a.d, a.d * b.d)
RNeg(a) == [n |-> -a.n, d |-> a.d]
RSub(a, b) == RAdd(a, RNeg(b))
RMul(a, b) == IF a.d = 0 \/ b.d = 0 THEN Inf ELSE R(a.n * b.n, a.d * b.d)
RDiv(a, b) == IF a.d = 0 \/ b.d = 0 \/ b.n = 0 THEN Inf ELSE R(a.n * b.d, a.d * b.n)
RLess(a, b) == a.n * b.d < b.n * a.d
RLeq(a, b) == a.n * b.d <= b.n * a.d
RSign(a) == IF a.n > 0 THEN 1 ELSE IF a.n < 0 THEN -1 ELSE 0
\* math.Floor followed by int(): the largest integer <= a
RFloor(a) == a.n \div a.d
\* math.Ceil followed by int(): the smallest integer >= a
RCeil(a) == -((-a.n) \div a.d)

(***************************************************************************)
(* geom.Grid: a window of Width^3 cells at Origin of a periodic grid.      *)
(***************************************************************************)
geom_NewGrid(origin, width) ==
    [Origin |-> origin, Width |-> width, Volume |-> width * width * width]

BoundsCheck(g, i, j, k) ==
    /\ g.Origin[1] <= i /\ i < g.Origin[1] + g.Width
    /\ g.Origin[2] <= j /\ j < g.Origin[2] + g.Width
    /\ g.Origin[3] <= k /\ k < g.Origin[3] + g.Width

Idx(g, i, j, k) ==
    (i - g.Origin[1]) + (j - g.Origin[2]) * g.Width
        + (k - g.Origin[3]) * g.Width * g.Width

IdxCheck(g, i, j, k) ==
    IF BoundsCheck(g, i, j, k) THEN [idx |-> Idx(g, i, j, k), ok |-> TRUE]
    ELSE [idx |-> -1, ok |-> FALSE]

\* Euclidean modulo on every axis
Wrap(bg, i, j, k) == << i % bg.Width, j % bg.Width, k % bg.Width >>

(***************************************************************************)
(* density.Grid and its construction.                                      *)
(***************************************************************************)
Grid_Init(boxWidth, gridWidth, rhosLen, c) ==
    IF rhosLen # c.Width * c.Width * c.Width
    THEN [panic |-> "Length of rhos doesn't match cell width."]
    ELSE LET cw == RDiv(boxWidth, RInt(c.Width * gridWidth))
         IN  [panic |-> "none",
              Rhos |-> [i \in 0 .. rhosLen - 1 |-> Zero],
              BoxWidth |-> boxWidth,
              CellWidth |-> cw,
              CellVolume |-> RMul(RMul(cw, cw), cw),
              G |-> geom_NewGrid(<< c.X * c.Width, c.Y * c.Width, c.Z * c.Width >>,
                                 c.Width),
              BG |-> geom_NewGrid(<< 0, 0, 0 >>, c.Width * gridWidth)]

cellPoints(x, y, z, cw) ==
    << RFloor(RDiv(x, cw)), RFloor(RDiv(y, cw)), RFloor(RDiv(z, cw)) >>


(***************************************************************************)
(* The result of an Interpolate call: the grids as the call leaves them,   *)
(* the run-time panic that ended it ("none" when it returned), and the     *)
(* writes `Rhos[idx] += frac` it attempted, in program order (a write with *)
(* ok = FALSE was dropped by the bounds check).                            *)
(***************************************************************************)
Result(gs, panic, log) == [gs |-> gs, panic |-> panic, log |-> log]

Write(gIdx, i, j, k, frac, ok) ==
    [g |-> gIdx, cell |-> << i, j, k >>, frac |-> frac, ok |-> ok]

\* Grid_incr without the bounds check: a cell outside the window is folded
\* into it
Grid_incr_unchecked(g, i, j, k, frac) ==
    LET idx == ((i - g.G.Origin[1]) % g.G.Width)
                   + ((j - g.G.Origin[2]) % g.G.Width) * g.G.Width
                   + ((k - g.G.Origin[3]) % g.G.Width) * g.G.Width * g.G.Width
    IN  [g EXCEPT !.Rhos[idx] = RAdd(@, frac)]

\* `if idx, ok := g.G.IdxCheck(i, j, k); ok { g.Rhos[idx] += frac }`
Grid_incr(g, i, j, k, frac) ==
    LET chk == IdxCheck(g.G, i, j, k)
    IN  IF chk.ok THEN [g EXCEPT !.Rhos[chk.idx] = RAdd(@, frac)] ELSE g

\* Grid_nbrs without the case of the lower edge
Grid_nbrs_nolow(g, i) ==
    IF i + 1 = g.BG.Width THEN << i, 0 >> ELSE << i, i + 1 >>

Grid_nbrs(g, i) ==
    IF i = -1 THEN << g.BG.Width - 1, 0 >>
    ELSE IF i + 1 = g.BG.Width THEN << i, 0 >>
    ELSE << i, i + 1 >>

(***************************************************************************)
(* ngp.Interpolate, over a list of grids.                                  *)
(***************************************************************************)
ngp_cell(gs, pt) == cellPoints(pt[1], pt[2], pt[3], gs[1].CellWidth)

\* ngp_point leaving the loop over the grids at the first grid it writes to
ngp_point_first(gs, frac, pt) ==
    LET c == cellPoints(pt[1], pt[2], pt[3], gs[1].CellWidth)
        hit(gIdx) == IdxCheck(gs[gIdx].G, c[1], c[2], c[3])
    IN  [gIdx \in DOMAIN gs |->
            IF hit(gIdx).ok /\ \A h \in 1 .. gIdx - 1 : ~hit(h).ok
            THEN [gs[gIdx] EXCEPT !.Rhos[hit(gIdx).idx] = RAdd(@, frac)]
            ELSE gs[gIdx]]

\* the body of `for gIdx := range gs` for one point
ngp_point(gs, frac, pt) ==
    LET c == ngp_cell(gs, pt)
    IN  [gIdx \in DOMAIN gs |-> Grid_incr(gs[gIdx], c[1], c[2], c[3], frac)]

ngp_writes(gs, frac, pt) ==
    LET c == ngp_cell(gs, pt)
    IN  [gIdx \in DOMAIN gs |->
            Write(gIdx, c[1], c[2], c[3], frac,
                  IdxCheck(gs[gIdx].G, c[1], c[2], c[3]).ok)]

RECURSIVE ngp_loop(_, _, _, _, _)
ngp_loop(gs, frac, xs, n, log) ==
    IF n > Len(xs) THEN Result(gs, "none", log)
    ELSE ngp_loop(ngp_point(gs, frac, xs[n]), frac, xs, n + 1,
                  log \o ngp_writes(gs, frac, xs[n]))

ngp_Interpolate(gs, mass, ids, xs) ==
    IF Len(gs) = 0 THEN Result(gs, "index out of range", << >>)
    ELSE ngp_loop(gs, RDiv(mass, gs[1].CellVolume), xs, 1, << >>)

(***************************************************************************)
(* cic.Interpolate, over a list of grids.                                  *)
(***************************************************************************)
\* the eight (cell, weight) pairs of one point, in the order of the code:
\* 000, 100, 010, 110, 001, 101, 011, 111
cic_overs(gs, frac, pt) ==
    LET cw  == gs[1].CellWidth
        cw2 == RDiv(gs[1].CellWidth, RInt(2))
        xp  == RSub(pt[1], cw2)
        yp  == RSub(pt[2], cw2)
        zp  == RSub(pt[3], cw2)
        c   == cellPoints(xp, yp, zp, gs[1].CellWidth)
        dx  == RSub(RDiv(xp, cw), RInt(c[1]))
        dy  == RSub(RDiv(yp, cw), RInt(c[2]))
        dz  == RSub(RDiv(zp, cw), RInt(c[3]))
        tx  == RSub(One, dx)
        ty  == RSub(One, dy)
        tz  == RSub(One, dz)
        i   == Grid_nbrs(gs[1], c[1])
        j   == Grid_nbrs(gs[1], c[2])
        k   == Grid_nbrs(gs[1], c[3])
        W(a, b, cc) == RMul(RMul(RMul(a, b), cc), frac)
    IN  << [cell |-> << i[1], j[1], k[1] >>, frac |-> W(tx, ty, tz)],
           [cell |-> << i[2], j[1], k[1] >>, frac |-> W(dx, ty, tz)],
           [cell |-> << i[1], j[2], k[1] >>, frac |-> W(tx, dy, tz)],
           [cell |-> << i[2], j[2], k[1] >>, frac |-> W(dx, dy, tz)],
           [cell |-> << i[1], j[1], k[2] >>, frac |-> W(tx, ty, dz)],
           [cell |-> << i[2], j[1], k[2] >>, frac |-> W(dx, ty, dz)],
           [cell |-> << i[1], j[2], k[2] >>, frac |-> W(tx, dy, dz)],
           [cell |-> << i[2], j[2], k[2] >>, frac |-> W(dx, dy, dz)] >>

\* the eight g.incr calls on one grid
RECURSIVE cic_incrs(_, _, _)
cic_incrs(g, overs, n) ==
    IF n > Len(overs) THEN g
    ELSE cic_incrs(Grid_incr(g, overs[n].cell[1], overs[n].cell[2],
                             overs[n].cell[3], overs[n].frac),
                   overs, n + 1)

cic_point(gs, frac, pt) ==
    LET overs == cic_overs(gs, frac, pt)
    IN  [gIdx \in DOMAIN gs |-> cic_incrs(gs[gIdx], overs, 1)]

RECURSIVE cic_writes(_, _, _, _)
cic_writes(gs, overs, gIdx, log) ==
    IF gIdx > Len(gs) THEN log
    ELSE cic_writes(gs, overs, gIdx + 1,
            log \o [n \in 1 .. Len(overs) |->
                      Write(gIdx, overs[n].cell[1], overs[n].cell[2],
                            overs[n].cell[3], overs[n].frac,
                            IdxCheck(gs[gIdx].G, overs[n].cell[1],
                                     overs[n].cell[2], overs[n].cell[3]).ok)])

RECURSIVE cic_loop(_, _, _, _, _)
cic_loop(gs, frac, xs, n, log) ==
    IF n > Len(xs) THEN Result(gs, "none", log)
    ELSE cic_loop(cic_point(gs, frac, xs[n]), frac, xs, n + 1,
                  cic_writes(gs, cic_overs(gs, frac, xs[n]), 1, log))

\* cic_Interpolate depositing the mass itself, not the density
cic_Interpolate_mass(gs, mass, ids, xs) ==
    IF Len(gs) = 0 THEN Result(gs, "index out of range", << >>)
    ELSE cic_loop(gs, mass, xs, 1, << >>)

cic_Interpolate(gs, mass, ids, xs) ==
    IF Len(gs) = 0 THEN Result(gs, "index out of range", << >>)
    ELSE cic_loop(gs, RDiv(mass, gs[1].CellVolume), xs, 1, << >>)

(***************************************************************************)
(* The first version of the package: an interpolator bound to one grid.    *)
(* intr has the fields of the cic / ngp structs: g, bg, cellWidth,         *)
(* cellVolume, rhos.                                                       *)
(***************************************************************************)
Bounds(cells, gridWidth, gx, gy, gz) ==
    [g  |-> geom_NewGrid(<< gx * cells, gy * cells, gz * cells >>, cells),
     bg |-> geom_NewGrid(<< 0, 0, 0 >>, cells * gridWidth)]

\* the value NewInterpolator returns, or the panic that ends it
NewInterpolator(flag, g, bg, width, rhosLen) ==
    IF g.Volume # rhosLen
    THEN [kind |-> "none", panic |-> "Volume of grid does not equal length of rhos"]
    ELSE LET cellWidth  == RDiv(width, RInt(g.Width))
             cellVolume == RMul(RMul(cellWidth, cellWidth), cellWidth)
             fields == [g |-> g, bg |-> bg, cellWidth |-> cellWidth,
                        cellVolume |-> cellVolume,
                        rhos |-> [i \in 0 .. rhosLen - 1 |-> Zero]]
         IN  CASE flag = 0 -> [kind |-> "cic1", panic |-> "none"] @@ fields
               [] flag = 1 -> [kind |-> "ngp1", panic |-> "none"] @@ fields
               [] OTHER    -> [kind |-> "none", panic |-> "Unknown flag"]

ngp1_point(intr, frac, pt) ==
    LET c   == cellPoints(pt[1], pt[2], pt[3], intr.cellWidth)
        chk == IdxCheck(intr.g, c[1], c[2], c[3])
    IN  IF chk.ok THEN [intr EXCEPT !.rhos[chk.idx] = RAdd(@, frac)] ELSE intr

RECURSIVE ngp1_loop(_, _, _, _)
ngp1_loop(intr, frac, xs, n) ==
    IF n > Len(xs) THEN intr
    ELSE ngp1_loop(ngp1_point(intr, frac, xs[n]), frac, xs, n + 1)

ngp1_Interpolate(intr, mass, ids, xs) ==
    ngp1_loop(intr, RDiv(mass, intr.cellVolume), xs, 1)

cic1_nbrs(intr, i) ==
    IF i = -1 THEN << intr.bg.Width - 1, 0 >>
    ELSE IF i + 1 = intr.bg.Width THEN << i, 0 >>
    ELSE << i, i + 1 >>

cic1_incr(intr, i, j, k, frac) ==
    LET chk == IdxCheck(intr.g, i, j, k)
    IN  IF chk.ok THEN [intr EXCEPT !.rhos[chk.idx] = RAdd(@, frac)] ELSE intr

cic1_point(intr, frac, pt) ==
    LET cw  == intr.cellWidth
        cw2 == RDiv(intr.cellWidth, RInt(2))
        xp  == RSub(pt[1], cw2)
        yp  == RSub(pt[2], cw2)
        zp  == RSub(pt[3], cw2)
        c   == cellPoints(xp, yp, zp, intr.cellWidth)
        dx  == RSub(RDiv(xp, cw), RInt(c[1]))
        dy  == RSub(RDiv(yp, cw), RInt(c[2]))
        dz  == RSub(RDiv(zp, cw), RInt(c[3]))
        tx  == RSub(One, dx)
        ty  == RSub(One, dy)
        tz  == RSub(One, dz)
        i   == cic1_nbrs(intr, c[1])
        j   == cic1_nbrs(intr, c[2])
        k   == cic1_nbrs(intr, c[3])
        W(a, b, cc) == RMul(RMul(RMul(a, b), cc), frac)
        s1  == cic1_incr(intr, i[1], j[1], k[1], W(tx, ty, tz))
        s2  == cic1_incr(s1, i[2], j[1], k[1], W(dx, ty, tz))
        s3  == cic1_incr(s2, i[1], j[2], k[1], W(tx, dy, tz))
        s4  == cic1_incr(s3, i[2], j[2], k[1], W(dx, dy, tz))
        s5  == cic1_incr(s4, i[1], j[1], k[2], W(tx, ty, dz))
        s6  == cic1_incr(s5, i[2], j[1], k[2], W(dx, ty, dz))
        s7  == cic1_incr(s6, i[1], j[2], k[2], W(tx, dy, dz))
    IN  cic1_incr(s7, i[2], j[2], k[2], W(dx, dy, dz))

RECURSIVE cic1_loop(_, _, _, _)
cic1_loop(intr, frac, xs, n) ==
    IF n > Len(xs) THEN intr
    ELSE cic1_loop(cic1_point(intr, frac, xs[n]), frac, xs, n + 1)

cic1_Interpolate(intr, mass, ids, xs) ==
    cic1_loop(intr, RDiv(mass, intr.cellVolume), xs, 1)

(***************************************************************************)
(* geom.Vec and geom.Tetra.                                                *)
(***************************************************************************)
VSub(a, b) == << RSub(a[1], b[1]), RSub(a[2], b[2]), RSub(a[3], b[3]) >>

\* the scalar triple product a . (b x c)
Det3(a, b, c) ==
    RAdd(RAdd(RMul(a[1], RSub(RMul(b[2], c[3]), RMul(b[3], c[2]))),
              RMul(a[2], RSub(RMul(b[3], c[1]), RMul(b[1], c[3])))),
         RMul(a[3], RSub(RMul(b[1], c[2]), RMul(b[2], c[1]))))

\* the scalar triple product of the edges from a
Orient3(a, b, c, d) == Det3(VSub(b, a), VSub(c, a), VSub(d, a))

RAbs(a) == [n |-> Abs(a.n), d |-> a.d]

Volume(t) == RDiv(RAbs(Orient3(t[1], t[2], t[3], t[4])), RInt(6))

\* the image of coordinate x nearest to x0 in a periodic box
Recenter(x, x0, boxWidth) ==
    LET half == RDiv(boxWidth, RInt(2))
        d    == RSub(x, x0)
    IN  IF RLess(half, d) THEN RSub(x, boxWidth)
        ELSE IF RLess(d, RNeg(half)) THEN RAdd(x, boxWidth)
        ELSE x

Tetra_Init(p0, p1, p2, p3, boxWidth) ==
    LET C(p) == [d \in 1 .. 3 |-> Recenter(p[d], p0[d], boxWidth)]
    IN  << p0, C(p1), C(p2), C(p3) >>

RMin(a, b) == IF RLess(b, a) THEN b ELSE a
RMax(a, b) == IF RLess(a, b) THEN b ELSE a

CellBoundsAt(t, cellWidth) ==
    LET lo(d) == RMin(RMin(t[1][d], t[2][d]), RMin(t[3][d], t[4][d]))
        hi(d) == RMax(RMax(t[1][d], t[2][d]), RMax(t[3][d], t[4][d]))
    IN  [Min |-> [d \in 1 .. 3 |-> RFloor(RDiv(lo(d), cellWidth))],
         Max |-> [d \in 1 .. 3 |-> RCeil(RDiv(hi(d), cellWidth))]]

\* the cell bounds, wrapped through bg, overlap the window g on every axis
Intersect(g, cb, bg) ==
    \A d \in 1 .. 3 :
        \E c \in cb.Min[d] .. cb.Max[d] :
            /\ g.Origin[d] <= c % bg.Width
            /\ c % bg.Width < g.Origin[d] + g.Width

\* v is inside t or on its boundary: the four half-space tests agree in sign
Contains(t, v) ==
    LET s == << RSign(Orient3(v, t[2], t[3], t[4])),
                RSign(Orient3(t[1], v, t[3], t[4])),
                RSign(Orient3(t[1], t[2], v, t[4])),
                RSign(Orient3(t[1], t[2], t[3], v)) >>
    IN  \/ \A n \in 1 .. 4 : s[n] >= 0
        \/ \A n \in 1 .. 4 : s[n] <= 0

\* the square of the length of the shortest of the six edges
MinLegSq(t) ==
    LET L(a, b) == LET e == VSub(t[a], t[b])
                   IN  RAdd(RAdd(RMul(e[1], e[1]), RMul(e[2], e[2])),
                            RMul(e[3], e[3]))
    IN  RMin(RMin(RMin(L(1, 2), L(1, 3)), RMin(L(1, 4), L(2, 3))),
             RMin(L(2, 4), L(3, 4)))

\* the point of t with the folded barycentric weights of (s, t, u) in [0,1)^3
Distribute1(tet, stu) ==
    LET s0 == stu[1]
        t0 == stu[2]
        u0 == stu[3]
        fold1 == RLess(One, RAdd(s0, t0))
        s1 == IF fold1 THEN RSub(One, s0) ELSE s0
        t1 == IF fold1 THEN RSub(One, t0) ELSE t0
        fold2 == RLess(One, RAdd(t1, u0))
        fold3 == ~fold2 /\ RLess(One, RAdd(RAdd(s1, t1), u0))
        s2 == IF fold3 THEN RSub(RSub(One, t1), u0) ELSE s1
        t2 == IF fold2 THEN RSub(One, u0) ELSE t1
        u2 == IF fold2 THEN RSub(RSub(One, s1), t1)
              ELSE IF fold3 THEN RSub(RAdd(RAdd(s1, t1), u0), One)
              ELSE u0
        w == RSub(RSub(RSub(One, s2), t2), u2)
    IN  [d \in 1 .. 3 |->
            RAdd(RAdd(RMul(w, tet[1][d]), RMul(s2, tet[2][d])),
                 RAdd(RMul(t2, tet[3][d]), RMul(u2, tet[4][d])))]

Distribute(tet, stus) == [n \in DOMAIN stus |-> Distribute1(tet, stus[n])]

(***************************************************************************)
(* geom.TetraIdxs: the four particle ids of tetra dir of the cube anchored *)
(* at idx on a periodic lattice of countWidth^3 particles.                 *)
(***************************************************************************)
TetraDirs ==
    << << << 1, 0, 0 >>, << 1, 1, 0 >> >>,
       << << 1, 0, 0 >>, << 1, 0, 1 >> >>,
       << << 0, 1, 0 >>, << 1, 1, 0 >> >>,
       << << 0, 0, 1 >>, << 1, 0, 1 >> >>,
       << << 0, 1, 0 >>, << 0, 1, 1 >> >>,
       << << 0, 0, 1 >>, << 0, 1, 1 >> >> >>

compressCoords(x, y, z, dx, dy, dz, countWidth) ==
    ((x + dx) % countWidth) + ((y + dy) % countWidth) * countWidth
        + ((z + dz) % countWidth) * countWidth * countWidth

TetraIdxs_Init(idx, countWidth, skip, dir) ==
    LET x == idx % countWidth
        y == (idx % (countWidth * countWidth)) \div countWidth
        z == idx \div (countWidth * countWidth)
        a == TetraDirs[dir + 1][1]
        b == TetraDirs[dir + 1][2]
    IN  << compressCoords(x, y, z, skip, skip, skip, countWidth),
           compressCoords(x, y, z, skip * a[1], skip * a[2], skip * a[3], countWidth),
           compressCoords(x, y, z, skip * b[1], skip * b[2], skip * b[3], countWidth),
           idx >>

(***************************************************************************)
(* catalog.ParticleManager: a function from the ids it holds to positions. *)
(***************************************************************************)
Has(man, id) == id \in DOMAIN man

(***************************************************************************)
(* The tetra-based interpolators.  Each operator below is one iteration of *)
(* `for _, id := range ids { for dir := 0; dir < 6; dir++ {...} }` and     *)
(* yields a record: the grids after it, the panic that ended it or "none", *)
(* its writes, and what it did.                                            *)
(***************************************************************************)
Missing(man, idxBuf) == \E n \in 1 .. 4 : ~Has(man, idxBuf[n])

TetraOf(man, idxBuf, boxWidth) ==
    Tetra_Init(man[idxBuf[1]], man[idxBuf[2]], man[idxBuf[3]], man[idxBuf[4]],
               boxWidth)

maxInt(x, y) == IF x > y THEN x ELSE y
minInt(x, y) == IF x < y THEN x ELSE y

\* the cells `for z { for y { for x {...} } }` of intrTetra visits, in order
intrTetra_cells(g, cb) ==
    LET minX == maxInt(cb.Min[1], g.G.Origin[1])
        maxX == minInt(cb.Max[1], g.G.Origin[1] + g.G.Width - 1)
        minY == maxInt(cb.Min[2], g.G.Origin[2])
        maxY == minInt(cb.Max[2], g.G.Origin[2] + g.G.Width - 1)
        minZ == maxInt(cb.Min[3], g.G.Origin[3])
        maxZ == minInt(cb.Max[3], g.G.Origin[3] + g.G.Width - 1)
        nx == maxInt(maxX - minX + 1, 0)
        ny == maxInt(maxY - minY + 1, 0)
        nz == maxInt(maxZ - minZ + 1, 0)
    IN  [n \in 1 .. nx * ny * nz |->
            << minX + ((n - 1) % nx),
               minY + (((n - 1) \div nx) % ny),
               minZ + ((n - 1) \div (nx * ny)) >>]

cellCenter_frac(tet, mass, g) == RDiv(RMul(mass, g.CellVolume), Volume(tet))

\* the cell centre intrTetra tests for the cell (x, y, z) of its loop
intrTetra_center(g, c) ==
    LET w == Wrap(g.BG, c[1], c[2], c[3])
        half == R(1, 2)
    IN  [d \in 1 .. 3 |-> RMul(RAdd(RInt(w[d]), half), g.CellWidth)]

RECURSIVE intrTetra_loop(_, _, _, _, _, _, _)
intrTetra_loop(tet, frac, g, cells, n, hits, log) ==
    IF n > Len(cells) THEN [g |-> g, hits |-> hits, log |-> log]
    ELSE LET w == Wrap(g.BG, cells[n][1], cells[n][2], cells[n][3])
         IN  IF Contains(tet, intrTetra_center(g, cells[n]))
             THEN intrTetra_loop(tet, frac,
                      [g EXCEPT !.Rhos[Idx(g.G, w[1], w[2], w[3])] = RAdd(@, frac)],
                      cells, n + 1, hits + 1,
                      Append(log, [cell |-> w, frac |-> frac]))
             ELSE intrTetra_loop(tet, frac, g, cells, n + 1, hits, log)

cellCenter_intrTetra(tet, mass, g, cb) ==
    intrTetra_loop(tet, cellCenter_frac(tet, mass, g), g,
                   intrTetra_cells(g, cb), 1, 0, << >>)

\* the indices of the grids whose window the cell bounds intersect
Intersecting(gs, cb) ==
    SelectSeq([i \in DOMAIN gs |-> i],
              LAMBDA i : Intersect(gs[i].G, cb, gs[i].BG))

InSeq(x, sq) == \E n \in DOMAIN sq : sq[n] = x

IndexOf(x, sq) == CHOOSE n \in DOMAIN sq : sq[n] = x

\* cellCenter_step ending the program at a missing particle
cellCenter_step_fatal(intr, gs, mass, id, dir) ==
    LET idxBuf == TetraIdxs_Init(id, intr.countWidth, 1, dir)
    IN  IF Missing(intr.man, idxBuf)
        THEN [gs |-> gs, panic |-> "Tetrahedron not in manager", log |-> << >>,
              did |-> [kind |-> "missing", id |-> id, dir |-> dir]]
        ELSE LET tet == TetraOf(intr.man, idxBuf, gs[1].BoxWidth)
                 cb  == CellBoundsAt(tet, gs[1].CellWidth)
                 sel == Intersecting(gs, cb)
                 res == [i \in DOMAIN gs |->
                            IF InSeq(i, sel)
                            THEN cellCenter_intrTetra(tet, RDiv(mass, RInt(6)),
                                                      gs[i], cb)
                            ELSE [g |-> gs[i], hits |-> 0, log |-> << >>]]
             IN  [gs |-> [i \in DOMAIN gs |-> res[i].g],
                  panic |-> "none",
                  log |-> [i \in DOMAIN gs |-> res[i].log],
                  did |-> [kind |-> "tetra", id |-> id, dir |-> dir,
                           tet |-> tet, cb |-> cb, sel |-> sel,
                           divByZero |-> (Len(sel) > 0 /\ Volume(tet) = Zero)]]

cellCenter_step(intr, gs, mass, id, dir) ==
    LET idxBuf == TetraIdxs_Init(id, intr.countWidth, 1, dir)
    IN  IF Missing(intr.man, idxBuf)
        THEN [gs |-> gs, panic |-> "none", log |-> << >>,
              did |-> [kind |-> "missing", id |-> id, dir |-> dir]]
        ELSE LET tet == TetraOf(intr.man, idxBuf, gs[1].BoxWidth)
                 cb  == CellBoundsAt(tet, gs[1].CellWidth)
                 sel == Intersecting(gs, cb)
                 res == [i \in DOMAIN gs |->
                            IF InSeq(i, sel)
                            THEN cellCenter_intrTetra(tet, RDiv(mass, RInt(6)),
                                                      gs[i], cb)
                            ELSE [g |-> gs[i], hits |-> 0, log |-> << >>]]
             IN  [gs |-> [i \in DOMAIN gs |-> res[i].g],
                  panic |-> "none",
                  log |-> [i \in DOMAIN gs |-> res[i].log],
                  did |-> [kind |-> "tetra", id |-> id, dir |-> dir,
                           tet |-> tet, cb |-> cb, sel |-> sel,
                           divByZero |-> (Len(sel) > 0 /\ Volume(tet) = Zero)]]

\* rand.Generator: the next n triples of gen
Draw(gen, n) ==
    [k \in 1 .. n |-> gen.stream[((gen.used + k - 1) % Len(gen.stream)) + 1]]

\* pointSelector: the point count, or the panic of calling a nil func
flat(intr, tet) == intr.steps

propToCell(intr, tet) ==
    IF RLeq(R(251 * 251, 1000 * 1000), MinLegSq(tet)) THEN intr.steps ELSE 0

pointSelect(intr, tet) ==
    CASE intr.pointSelect = "flat" -> flat(intr, tet)
      [] intr.pointSelect = "propToCell" -> propToCell(intr, tet)
      [] OTHER -> -1

\* the sub-interpolator called on the intersecting grids; its writes go to
\* the Rhos arrays the grids of gs share with their copies
subInterpolate_shared(gs, sel, r) ==
    [gs |-> [i \in DOMAIN gs |->
                IF InSeq(i, sel) /\ r.panic = "none"
                THEN r.gs[IndexOf(i, sel)] ELSE gs[i]],
     panic |-> r.panic,
     log |-> r.log]

subInterpolate(gs, sel, ptMass, vecBuf) ==
    subInterpolate_shared(gs, sel,
        ngp_Interpolate([n \in DOMAIN sel |-> gs[sel[n]]], ptMass,
                        << >>, vecBuf))

\* the outcome of one loop iteration: what the sub-interpolator did, and the
\* record of the iteration
Stepped(r, did) == [gs |-> r.gs, panic |-> r.panic, log |-> r.log, did |-> did]

\* RandomSample draws pts triples from intr.gen; `drawn` is their number
mcarlo_step(intr, gs, mass, id, dir) ==
    LET idxBuf == TetraIdxs_Init(id, intr.countWidth, 1, dir)
    IN  IF Missing(intr.man, idxBuf)
        THEN [gs |-> gs, panic |-> "none", log |-> << >>,
              did |-> [kind |-> "missing", id |-> id, dir |-> dir]]
        ELSE LET tet == TetraOf(intr.man, idxBuf, gs[1].BoxWidth)
                 cb  == CellBoundsAt(tet, gs[1].CellWidth)
                 pts == pointSelect(intr, tet)
             IN  IF pts = -1
                 THEN [gs |-> gs, panic |-> "nil func call", log |-> << >>,
                       did |-> [kind |-> "nilfunc", id |-> id, dir |-> dir]]
                 ELSE IF pts = 0
                 THEN [gs |-> gs, panic |-> "none", log |-> << >>,
                       did |-> [kind |-> "nopts", id |-> id, dir |-> dir]]
                 ELSE LET ptMass == RDiv(RDiv(mass, RInt(pts)), RInt(6))
                          vecBuf == Distribute(tet, Draw(intr.gen, pts))
                          sel    == Intersecting(gs, cb)
                      IN  Stepped(subInterpolate(gs, sel, ptMass, vecBuf),
                                  [kind |-> "tetra", id |-> id, dir |-> dir,
                                   tet |-> tet, cb |-> cb, sel |-> sel,
                                   drawn |-> pts])

sobol_step(intr, gs, mass, id, dir) ==
    LET idxBuf == TetraIdxs_Init(id, intr.countWidth, 1, dir)
        ptMass == RDiv(RDiv(mass, RInt(Len(intr.xs))), RInt(6))
    IN  IF Missing(intr.man, idxBuf)
        THEN [gs |-> gs, panic |-> "none", log |-> << >>,
              did |-> [kind |-> "missing", id |-> id, dir |-> dir]]
        ELSE LET tet == TetraOf(intr.man, idxBuf, gs[1].BoxWidth)
                 vecBuf == Distribute(tet, intr.xs)
                 cb  == CellBoundsAt(tet, gs[1].CellWidth)
                 sel == Intersecting(gs, cb)
             IN  Stepped(subInterpolate(gs, sel, ptMass, vecBuf),
                         [kind |-> "tetra", id |-> id, dir |-> dir,
                          tet |-> tet, cb |-> cb, sel |-> sel])

(***************************************************************************)
(* The constructors of the tetra-based interpolators.                      *)
(***************************************************************************)
CellCenter(man, countWidth) ==
    [kind |-> "cellCenter", man |-> man, countWidth |-> countWidth]

\* the flag a selector string stands for, or -1 where log.Fatalf exits
PointSelectorFromString(str) ==
    CASE str = "Flat" -> 0
      [] str = "PropToCells" -> 1
      [] OTHER -> -1

MonteCarlo(man, countWidth, gen, steps, flag) ==
    [kind |-> "mcarlo", man |-> man, countWidth |-> countWidth, steps |-> steps,
     gen |-> gen,
     pointSelect |-> CASE flag = 0 -> "flat"
                       [] flag = 1 -> "propToCell"
                       [] OTHER -> "nil"]

\* the first points of the low-discrepancy sequence
SobolPoints ==
    << << R(1, 2), R(1, 2), R(1, 2) >>,
       << R(3, 4), R(1, 4), R(3, 4) >>,
       << R(1, 4), R(3, 4), R(1, 4) >>,
       << R(3, 8), R(3, 8), R(5, 8) >> >>

SobolSequence(man, countWidth, steps) ==
    [kind |-> "sobol", man |-> man, countWidth |-> countWidth,
     xs |-> SubSeq(SobolPoints, 1, steps)]

(***************************************************************************)
(* Inputs.                                                                 *)
(***************************************************************************)
Cell(w, x, y, z) == [Width |-> w, X |-> x, Y |-> y, Z |-> z]

SubGrids(gridWidth) ==
    { << x, y, z >> : x \in 0 .. gridWidth - 1, y \in 0 .. gridWidth - 1,
                      z \in 0 .. gridWidth - 1 }

\* the width of the simulation box, in box units
BoxWidth == One

\* Target-grid layouts: a grid covering a bounding grid of 4^3 or 2^3 cells,
\* one 2^3 window of a 4^3 bounding grid (at the origin, or next to it
\* along one axis), and two such windows (the same window twice, or two
\* opposite ones).
Layouts ==
    { [gridWidth |-> 1, cells |-> << Cell(4, 0, 0, 0) >>],
      [gridWidth |-> 1, cells |-> << Cell(2, 0, 0, 0) >>] }
    \cup { [gridWidth |-> 2, cells |-> << Cell(2, c[1], c[2], c[3]) >>] :
             c \in { c \in SubGrids(2) : c[1] + c[2] + c[3] <= 1 } }
    \cup { [gridWidth |-> 2,
            cells |-> << Cell(2, 0, 0, 0), Cell(2, c, c, c) >>] :
             c \in 0 .. 1 }

\* positions inside the box on the quarter-cell lattice of a bounding grid
\* of bgWidth cells: the points with at least two equal coordinates
Coord(a, bgWidth) == RMul(R(a, 4 * bgWidth), BoxWidth)

Points(bgWidth) ==
    { << Coord(a, bgWidth), Coord(b, bgWidth), Coord(c, bgWidth) >> :
        << a, b, c >> \in
            { q \in (0 .. 4 * bgWidth - 1) \X (0 .. 4 * bgWidth - 1)
                        \X (0 .. 4 * bgWidth - 1) :
                q[1] = q[2] \/ q[2] = q[3] \/ q[1] = q[3] } }

\* the points of the diagonal on the half-cell lattice
DiagPoints(bgWidth) ==
    { << Coord(2 * a, bgWidth), Coord(2 * a, bgWidth), Coord(2 * a, bgWidth) >> :
        a \in 0 .. 2 * bgWidth - 1 }

\* the point lists of a call: no point, any one point, or up to MaxPts
\* points of the diagonal
XsSet(bgWidth) ==
    { << p >> : p \in Points(bgWidth) }
    \cup UNION { [1 .. n -> DiagPoints(bgWidth)] : n \in {0} \cup (2 .. MaxPts) }

Masses == { RInt(m) : m \in 1 .. MaxMass }

\* the layouts handed to the tetra-based strategies
TetraLayouts ==
    { [gridWidth |-> 1, cells |-> << Cell(4, 0, 0, 0) >>],
      [gridWidth |-> 2, cells |-> << Cell(2, 0, 0, 0) >>],
      [gridWidth |-> 2, cells |-> << Cell(2, 1, 1, 1) >>],
      [gridWidth |-> 2, cells |-> << Cell(2, 0, 0, 0), Cell(2, 1, 1, 1) >>] }

LayoutsFor(kind) == IF kind \in {"ngp", "cic"} THEN Layouts ELSE TetraLayouts

\* Particle managers.  Particle (ix, iy, iz) of the lattice sits at
\* (ox + sp*ix, 1 + sp*iy, 1 + sp*iz) eighths of the box, wrapped into the
\* box; a flat lattice has every particle at the same z; the ids of
\* `absent` are not in the manager.
LatticeIds == 0 .. CountWidth * CountWidth * CountWidth - 1

ParticleAt(id, ox, sp, isFlat) ==
    LET ix == id % CountWidth
        iy == (id \div CountWidth) % CountWidth
        iz == id \div (CountWidth * CountWidth)
    IN  << RMul(R((ox + sp * ix) % 8, 8), BoxWidth),
           RMul(R((1 + sp * iy) % 8, 8), BoxWidth),
           RMul(R((1 + (IF isFlat THEN 0 ELSE sp * iz)) % 8, 8), BoxWidth) >>

Man(ox, sp, isFlat, absent) ==
    [id \in LatticeIds \ absent |-> ParticleAt(id, ox, sp, isFlat)]

\* a small lattice, a lattice of 3/8 of the box at the origin and at the
\* far edge of the box (its cubes then straddle the edge), a flat one, and
\* one that lacks particle 6
Mans ==
    { Man(0, 1, FALSE, {}), Man(0, 3, FALSE, {}), Man(6, 3, FALSE, {}),
      Man(0, 3, TRUE, {}), Man(0, 3, FALSE, {6}) }

IdsSet == { [n \in 1 .. k |-> n - 1] : k \in 1 .. MaxIds }

\* Random generators: a generator is the stream of triples in [0,1)^3 it
\* will yield (repeated cyclically) and the number it has yielded.
Gens ==
    { [stream |-> << << Zero, Zero, Zero >> >>, used |-> 0],
      [stream |-> << << R(1, 4), R(1, 4), R(1, 4) >>,
                     << R(3, 4), R(1, 2), R(1, 4) >> >>, used |-> 0] }

SelectorStrings == { "Flat", "PropToCells", "flat", "" }

(***************************************************************************)
(* State.                                                                  *)
(***************************************************************************)
VARIABLES
    pc,      \* the program's position: "start", "built", "ready", "loop", ...
    intr,    \* the object the call is made on: the interpolator, a record
             \* with its kind and its fields (elsewhere the LU factors, the
             \* box, the kernel caches)
    gs,      \* the buffers the call writes: the target grids handed to
             \* Interpolate (elsewhere tsBuf, the positions, the halos)
    args,    \* the arguments of the call
    pos,     \* the position of a loop: the index (into ids) and dir
    step,    \* what the last loop iteration of a tetra-based call did
    log,     \* the writes, or the calls made, in program order
    panic    \* the panic that ended the program, or "none"

vars == << pc, intr, gs, args, pos, step, log, panic >>

NoArgs == [mass |-> Zero, ids |-> << >>, xs |-> << >>]
NoPos == [i |-> 0, dir |-> 0]
NoStep == [kind |-> "none"]

Init ==
    /\ pc = "start"
    /\ intr = [kind |-> "none"]
    /\ gs = << >>
    /\ args = NoArgs
    /\ pos = NoPos
    /\ step = NoStep
    /\ log = << >>
    /\ panic = "none"

(***************************************************************************)
(* Construction.                                                           *)
(***************************************************************************)
NearestGridPoint == [kind |-> "ngp"]

CloudInCell == [kind |-> "cic"]

NewNearestGridPoint ==
    /\ pc = "start"
    /\ intr' = NearestGridPoint
    /\ pc' = "built"
    /\ UNCHANGED << gs, args, pos, step, log, panic >>

NewCloudInCell ==
    /\ pc = "start"
    /\ intr' = CloudInCell
    /\ pc' = "built"
    /\ UNCHANGED << gs, args, pos, step, log, panic >>

\* NewInterpolator on the grids of Bounds(2, gridWidth, 0, 0, 0)
CallNewInterpolator ==
    /\ pc = "start"
    /\ \E flag \in 0 .. MaxFlag, gridWidth \in 1 .. 2, slack \in 0 .. 1 :
         LET b == Bounds(2, gridWidth, 0, 0, 0)
             r == NewInterpolator(flag, b.g, b.bg,
                                  RDiv(BoxWidth, RInt(gridWidth)),
                                  b.g.Volume + slack)
         IN  /\ panic' = r.panic
             /\ intr' = IF r.panic = "none" THEN r ELSE intr
             /\ pc' = IF r.panic = "none" THEN "ready" ELSE "panic"
    /\ UNCHANGED << gs, args, pos, step, log >>

\* NewGrid for every target grid of a layout
NewGrids ==
    /\ pc = "built"
    /\ \E l \in LayoutsFor(intr.kind), slack \in 0 .. 1 :
         LET new == [n \in DOMAIN l.cells |->
                        Grid_Init(BoxWidth, l.gridWidth,
                                  l.cells[n].Width * l.cells[n].Width
                                      * l.cells[n].Width + slack,
                                  l.cells[n])]
         IN  IF slack = 0
             THEN /\ gs' = new
                  /\ pc' = "ready"
                  /\ panic' = "none"
             ELSE /\ gs' = gs
                  /\ pc' = "panic"
                  /\ panic' = new[1].panic
    /\ UNCHANGED << intr, args, pos, step, log >>

(***************************************************************************)
(* Interpolate of the point-based strategies: the whole call.              *)
(***************************************************************************)
PointInterpolate ==
    /\ pc = "ready"
    /\ intr.kind \in {"ngp", "cic"}
    /\ \E mass \in Masses, xs \in XsSet(gs[1].BG.Width) :
         LET r == IF intr.kind = "ngp"
                  THEN ngp_Interpolate(gs, mass, << >>, xs)
                  ELSE cic_Interpolate(gs, mass, << >>, xs)
         IN  /\ gs' = r.gs
             /\ log' = r.log
             /\ panic' = r.panic
             /\ pc' = IF r.panic = "none" THEN "done" ELSE "panic"
             /\ args' = [mass |-> mass, ids |-> << >>, xs |-> xs]
    /\ UNCHANGED << intr, pos, step >>

PointInterpolate1 ==
    /\ pc = "ready"
    /\ intr.kind \in {"ngp1", "cic1"}
    /\ \E mass \in Masses, xs \in XsSet(intr.bg.Width) :
         /\ intr' = IF intr.kind = "ngp1"
                    THEN ngp1_Interpolate(intr, mass, << >>, xs)
                    ELSE cic1_Interpolate(intr, mass, << >>, xs)
         /\ args' = [mass |-> mass, ids |-> << >>, xs |-> xs]
         /\ pc' = "done"
    /\ UNCHANGED << gs, pos, step, log, panic >>

NewCellCenter ==
    /\ pc = "start"
    /\ \E man \in Mans : intr' = CellCenter(man, CountWidth)
    /\ pc' = "built"
    /\ UNCHANGED << gs, args, pos, step, log, panic >>

NewMonteCarlo ==
    /\ pc = "start"
    /\ \E man \in Mans, gen \in Gens, steps \in 1 .. MaxSteps,
          flag \in 0 .. MaxFlag :
         intr' = MonteCarlo(man, CountWidth, gen, steps, flag)
    /\ pc' = "built"
    /\ UNCHANGED << gs, args, pos, step, log, panic >>

\* MonteCarlo(man, countWidth, gen, steps, PointSelectorFromString(str))
NewMonteCarloFromString ==
    /\ pc = "start"
    /\ \E man \in Mans, gen \in Gens, steps \in 1 .. MaxSteps,
          str \in SelectorStrings :
         LET flag == PointSelectorFromString(str)
         IN  IF flag = -1
             THEN /\ pc' = "exit"
                  /\ panic' = "Unrecognized PointSelector string"
                  /\ intr' = intr
             ELSE /\ pc' = "built"
                  /\ panic' = panic
                  /\ intr' = MonteCarlo(man, CountWidth, gen, steps, flag)
    /\ UNCHANGED << gs, args, pos, step, log >>

NewSobolSequence ==
    /\ pc = "start"
    /\ \E man \in Mans, steps \in 1 .. MaxSteps :
         intr' = SobolSequence(man, CountWidth, steps)
    /\ pc' = "built"
    /\ UNCHANGED << gs, args, pos, step, log, panic >>

(***************************************************************************)
(* Interpolate of the tetra-based strategies: the call, then one action    *)
(* per iteration of its loop over (id, dir).                               *)
(***************************************************************************)
TetraKinds == {"cellCenter", "mcarlo", "sobol"}

BeginInterpolate ==
    /\ pc = "ready"
    /\ intr.kind \in TetraKinds
    /\ \E mass \in Masses, ids \in IdsSet :
         args' = [mass |-> mass, ids |-> ids, xs |-> << >>]
    /\ pos' = [i |-> 1, dir |-> 0]
    /\ pc' = "loop"
    /\ UNCHANGED << intr, gs, step, log, panic >>

\* the loop position after the iteration at pos, leaving the loop over dir
\* after its first iteration
Advance_nextId(p) == [i |-> p.i + 1, dir |-> 0]

\* the loop position after the iteration at pos
Advance(p) == IF p.dir < 5 THEN [p EXCEPT !.dir = @ + 1]
              ELSE [i |-> p.i + 1, dir |-> 0]

Iterate(r) ==
    /\ gs' = r.gs
    /\ log' = r.log
    /\ step' = r.did
    /\ panic' = r.panic
    /\ pos' = IF r.panic = "none" THEN Advance(pos) ELSE pos
    /\ pc' = IF r.panic # "none" THEN "panic"
             ELSE IF Advance(pos).i > Len(args.ids) THEN "done"
             ELSE "loop"
    /\ UNCHANGED args

\* one iteration of the Monte Carlo loop: the generator has moved on by the
\* triples the iteration drew
IterateDrawing(r) ==
    /\ Iterate(r)
    /\ intr' = IF "drawn" \in DOMAIN r.did
               THEN [intr EXCEPT !.gen.used = @ + r.did.drawn]
               ELSE intr

CellCenterStep ==
    /\ pc = "loop"
    /\ intr.kind = "cellCenter"
    /\ Iterate(cellCenter_step(intr, gs, args.mass, args.ids[pos.i], pos.dir))
    /\ UNCHANGED intr

MCarloStep ==
    /\ pc = "loop"
    /\ intr.kind = "mcarlo"
    /\ IterateDrawing(mcarlo_step(intr, gs, args.mass, args.ids[pos.i],
                                  pos.dir))

SobolStep ==
    /\ pc = "loop"
    /\ intr.kind = "sobol"
    /\ Iterate(sobol_step(intr, gs, args.mass, args.ids[pos.i], pos.dir))
    /\ UNCHANGED intr

(***************************************************************************)
(* The specifications: a program that builds and uses a point-based        *)
(* interpolator, and one that builds and uses a tetra-based interpolator.  *)
(***************************************************************************)
NextPoint ==
    \/ NewNearestGridPoint
    \/ NewCloudInCell
    \/ CallNewInterpolator
    \/ NewGrids
    \/ PointInterpolate
    \/ PointInterpolate1

SpecPoint == Init /\ [][NextPoint]_vars

NextTetra ==
    \/ NewCellCenter
    \/ NewMonteCarlo
    \/ NewMonteCarloFromString
    \/ NewSobolSequence
    \/ NewGrids
    \/ BeginInterpolate
    \/ CellCenterStep
    \/ MCarloStep
    \/ SobolStep

SpecTetra == Init /\ [][NextTetra]_vars

(***************************************************************************)
(* geom.Tetra.Orient.  A tetrahedron is a sequence of four vertices, a     *)
(* vertex a triple of integers (exact as float32).                         *)
(***************************************************************************)
MaxCoord == 1
\* at most MaxCalls calls of Orient on one tetrahedron
MaxCalls == 3

\* Orient with the test of the direction reversed
Orient_reversed(t, dir) ==
    LET v == [i \in 1 .. 3 |-> t[2][i] - t[1][i]]
        w == [i \in 1 .. 3 |-> t[3][i] - t[1][i]]
        n == << -v[2] * w[3] + v[3] * w[2],
                -v[3] * w[1] + v[1] * w[3],
                -v[1] * w[2] + v[2] * w[1] >>
        dot == n[1] * (t[4][1] - t[1][1]) + n[2] * (t[4][2] - t[1][2])
                   + n[3] * (t[4][3] - t[1][3])
    IN  IF (dot < 0 /\ dir = 1) \/ (dot > 0 /\ dir = -1)
        THEN << t[2], t[1], t[3], t[4] >>
        ELSE t

\* Orient exchanging the first and the third vertex
Orient_swap02(t, dir) ==
    LET v == [i \in 1 .. 3 |-> t[2][i] - t[1][i]]
        w == [i \in 1 .. 3 |-> t[3][i] - t[1][i]]
        n == << -v[2] * w[3] + v[3] * w[2],
                -v[3] * w[1] + v[1] * w[3],
                -v[1] * w[2] + v[2] * w[1] >>
        dot == n[1] * (t[4][1] - t[1][1]) + n[2] * (t[4][2] - t[1][2])
                   + n[3] * (t[4][3] - t[1][3])
    IN  IF (dot < 0 /\ dir = -1) \/ (dot > 0 /\ dir = 1)
        THEN << t[3], t[2], t[1], t[4] >>
        ELSE t

Orient(t, dir) ==
    LET v == [i \in 1 .. 3 |-> t[2][i] - t[1][i]]
        w == [i \in 1 .. 3 |-> t[3][i] - t[1][i]]
        n == << -v[2] * w[3] + v[3] * w[2],
                -v[3] * w[1] + v[1] * w[3],
                -v[1] * w[2] + v[2] * w[1] >>
        dot == n[1] * (t[4][1] - t[1][1]) + n[2] * (t[4][2] - t[1][2])
                   + n[3] * (t[4][3] - t[1][3])
    IN  IF (dot < 0 /\ dir = -1) \/ (dot > 0 /\ dir = 1)
        THEN << t[2], t[1], t[3], t[4] >>
        ELSE t

Vecs == (0 .. MaxCoord) \X (0 .. MaxCoord) \X (0 .. MaxCoord)

\* a tetrahedron with its first vertex at the origin
InitOrient ==
    /\ pc = "tetra"
    /\ intr = [kind |-> "none"]
    /\ gs = << >>
    /\ \E t1 \in Vecs, t2 \in Vecs, t3 \in Vecs :
         args = [t |-> << << 0, 0, 0 >>, t1, t2, t3 >>,
                 orig |-> << << 0, 0, 0 >>, t1, t2, t3 >>, dirs |-> << >>]
    /\ pos = NoPos
    /\ step = NoStep
    /\ log = << >>
    /\ panic = "none"

\* t.Orient(dir); args keeps the tetrahedron as it was before the call and
\* as it was first, and the directions of the calls so far
CallOrient ==
    /\ pc \in {"tetra", "oriented"}
    /\ Len(args.dirs) < MaxCalls
    /\ \E dir \in {-1, 1} :
         args' = [t |-> Orient(args.t, dir), dir |-> dir, before |-> args.t,
                  orig |-> args.orig, dirs |-> Append(args.dirs, dir)]
    /\ pc' = "oriented"
    /\ UNCHANGED << intr, gs, pos, step, log, panic >>

NextOrient == CallOrient

SpecOrient == InitOrient /\ [][NextOrient]_vars

(***************************************************************************)
(* Properties of the point-based strategies (SpecPoint).                   *)
(***************************************************************************)
WindowCells(G) ==
    { << i, j, k >> : i \in G.Origin[1] .. G.Origin[1] + G.Width - 1,
                      j \in G.Origin[2] .. G.Origin[2] + G.Width - 1,
                      k \in G.Origin[3] .. G.Origin[3] + G.Width - 1 }

CellOfPoint(p, cw) ==
    << RFloor(RDiv(p[1], cw)), RFloor(RDiv(p[2], cw)), RFloor(RDiv(p[3], cw)) >>

\* the number of points of xs in cell c
PointsIn(xs, c, cw) ==
    Cardinality({ n \in DOMAIN xs : CellOfPoint(xs[n], cw) = c })

RhoAt(rhos, G, c) == rhos[Idx(G, c[1], c[2], c[3])]

NGPCountsOn(rhos, G, cw, cv) ==
    \A c \in WindowCells(G) :
        RhoAt(rhos, G, c)
            = RMul(RDiv(args.mass, cv), RInt(PointsIn(args.xs, c, cw)))

\* C1: after an NGP call on zeroed grids, every cell of every target grid
\* holds mass / cell_volume times the number of points whose cell
\* floor(p / cell_width) it is, and nothing else; the same for the NGP
\* interpolator of the single-grid version.
C1_NGPCounts ==
    /\ (pc = "done" /\ intr.kind = "ngp") =>
          \A g \in DOMAIN gs :
              NGPCountsOn(gs[g].Rhos, gs[g].G, gs[g].CellWidth, gs[g].CellVolume)
    /\ (pc = "done" /\ intr.kind = "ngp1") =>
          NGPCountsOn(intr.rhos, intr.g, intr.cellWidth, intr.cellVolume)

\* Scenario A: one point of mass 2 at the centre of cell (1,1,1) of a 4^3
\* grid covering the box leaves 128 in that cell and zero elsewhere.
C1_Witness ==
    /\ pc = "done" /\ intr.kind = "ngp"
    /\ Len(gs) = 1 /\ gs[1].G.Width = 4 /\ gs[1].BG.Width = 4
    /\ args.mass = RInt(2)
    /\ args.xs = << << R(3, 8), R(3, 8), R(3, 8) >> >>
    /\ gs[1].Rhos[21] = RInt(128)
    /\ \A i \in DOMAIN gs[1].Rhos : i # 21 => gs[1].Rhos[i] = Zero

\* the sum of rhos[lo .. hi]
RECURSIVE SumRange(_, _, _)
SumRange(rhos, lo, hi) ==
    IF lo > hi THEN Zero
    ELSE IF lo = hi THEN rhos[lo]
    ELSE LET mid == (lo + hi) \div 2
             l == SumRange(rhos, lo, mid)
             r == SumRange(rhos, mid + 1, hi)
         IN  RAdd(l, r)

\* the mass a grid holds: the sum over its cells of rho * cell_volume
MassOn(g) == RMul(SumRange(g.Rhos, 0, g.G.Volume - 1), g.CellVolume)

StrictlyInside(p, g) ==
    \A d \in 1 .. 3 :
        /\ RLess(RMul(RInt(g.G.Origin[d]), g.CellWidth), p[d])
        /\ RLess(p[d], RMul(RInt(g.G.Origin[d] + g.G.Width), g.CellWidth))

\* On axis d, the coordinates of the cells of the bounding grid that get a
\* non-zero CIC weight from p: the cell of p - cell_width/2 and, unless p
\* sits at that cell's centre, the next one, both modulo the grid width.
WeightCoords(p, g, d) ==
    LET q  == RSub(RDiv(p[d], g.CellWidth), R(1, 2))
        lo == RFloor(q)
    IN  { lo % g.BG.Width }
        \cup (IF q = RInt(lo) THEN {} ELSE { (lo + 1) % g.BG.Width })

InWindowAxis(g, d, c) == g.G.Origin[d] <= c /\ c < g.G.Origin[d] + g.G.Width

AllWeightInside(p, g) ==
    \A d \in 1 .. 3 : \A c \in WeightCoords(p, g, d) : InWindowAxis(g, d, c)

SomeWeightInside(p, g) ==
    \A d \in 1 .. 3 : \E c \in WeightCoords(p, g, d) : InWindowAxis(g, d, c)

OnePointDone(kinds) ==
    pc = "done" /\ intr.kind \in kinds /\ Len(args.xs) = 1

\* C2 as stated: for one point strictly inside a target grid, the sum over
\* that grid's cells of rho * cell_volume equals mass, for NGP and for CIC.
C2_MassConserved ==
    OnePointDone({"ngp", "cic"}) =>
        \A g \in DOMAIN gs :
            StrictlyInside(args.xs[1], gs[g]) => MassOn(gs[g]) = args.mass

\* C2: for one point strictly inside a target grid, the sum over that
\* grid's cells of rho * cell_volume equals mass for NGP; for CIC it equals
\* mass when every neighbour cell that gets a non-zero weight lies in that
\* grid, and is less than mass otherwise.
C2_MassConservedInside ==
    OnePointDone({"ngp", "cic"}) =>
        \A g \in DOMAIN gs :
            StrictlyInside(args.xs[1], gs[g]) =>
                IF intr.kind = "ngp" \/ AllWeightInside(args.xs[1], gs[g])
                THEN MassOn(gs[g]) = args.mass
                ELSE RLess(MassOn(gs[g]), args.mass)

\* a CIC point strictly inside a proper sub-window that spreads its mass
\* over several cells of the window, all of it kept
C2_Witness ==
    /\ OnePointDone({"cic"})
    /\ gs[1].G.Width < gs[1].BG.Width
    /\ StrictlyInside(args.xs[1], gs[1])
    /\ Cardinality({ i \in DOMAIN gs[1].Rhos : gs[1].Rhos[i] # Zero }) = 8
    /\ MassOn(gs[1]) = args.mass

OutsideEvery(p) ==
    \A g \in DOMAIN gs :
        CellOfPoint(p, gs[g].CellWidth) \notin WindowCells(gs[g].G)

Untouched(g) == \A i \in DOMAIN g.Rhos : g.Rhos[i] = Zero

C7_CICWrap ==
    (pc = "done" /\ intr.kind = "cic"
        /\ \A n \in DOMAIN args.xs : \A d \in 1 .. 3 :
               RLeq(Zero, args.xs[n][d]) /\ RLess(args.xs[n][d], gs[1].BoxWidth))
    => /\ Len(log) = 8 * Len(gs) * Len(args.xs)
       /\ \A n \in DOMAIN log : \A d \in 1 .. 3 :
            LET p  == args.xs[((n - 1) \div (8 * Len(gs))) + 1]
                lo == RFloor(RSub(RDiv(p[d], gs[1].CellWidth), R(1, 2)))
                W  == gs[1].BG.Width
            IN  /\ log[n].cell[d] \in 0 .. W - 1
                /\ log[n].cell[d] \in
                       { IF lo = -1 THEN W - 1 ELSE lo,
                         IF lo + 1 = W THEN 0 ELSE lo + 1 }

\* Scenario C: a point at the origin of a 2^3 grid covering the box puts
\* mass / cell_volume / 8 into each of the eight cells.
C7_Witness ==
    /\ pc = "done" /\ intr.kind = "cic"
    /\ Len(gs) = 1 /\ gs[1].G.Width = 2 /\ gs[1].BG.Width = 2
    /\ args.xs = << << Zero, Zero, Zero >> >>
    /\ \A i \in 0 .. 7 :
           gs[1].Rhos[i] = RDiv(RDiv(args.mass, gs[1].CellVolume), RInt(8))
    /\ \E n \in DOMAIN log : log[n].cell = << 1, 1, 1 >> /\ log[n].ok

(***************************************************************************)
(* Properties of the tetra-based strategies (SpecTetra).                   *)
(***************************************************************************)
\* C4 as stated: when no target grid intersects the cell bounds of a
\* tetrahedron, the Monte Carlo and Sobol iteration gets an empty list of
\* grids, changes no grid and does not fail; the loop goes on.
C4_EmptyIntersectionHarmless ==
    (intr.kind \in {"mcarlo", "sobol"} /\ step.kind = "tetra"
        /\ step.sel = << >>)
    => (panic = "none" /\ pc \in {"loop", "done"})

\* the tetrahedron of the loop position has a vertex the manager lacks
MissingHere ==
    /\ pc = "loop"
    /\ intr.kind \in TetraKinds
    /\ \E n \in 1 .. 4 :
         TetraIdxs_Init(args.ids[pos.i], intr.countWidth, 1, pos.dir)[n]
             \notin DOMAIN intr.man

\* C5: an iteration of CellCenter, MonteCarlo or Sobol on a tetrahedron
\* with a vertex id missing from the particle manager changes no grid and
\* ends nothing: the loop moves to the next tetrahedron (or returns after
\* the last one).
C5_MissingSkipped ==
    [][MissingHere =>
          /\ gs' = gs
          /\ panic' = "none"
          /\ pos' = (IF pos.dir < 5 THEN [i |-> pos.i, dir |-> pos.dir + 1]
                     ELSE [i |-> pos.i + 1, dir |-> 0])
          /\ pc' = (IF pos.dir = 5 /\ pos.i = Len(args.ids) THEN "done"
                    ELSE "loop")]_vars

\* CellCenter has skipped the last tetrahedron of id 0 and stands at the
\* first tetrahedron of id 1, with what it deposited before still there
C5_Witness ==
    /\ intr.kind = "cellCenter"
    /\ step.kind = "missing" /\ step.id = 0 /\ step.dir = 5
    /\ pc = "loop" /\ pos = [i |-> 2, dir |-> 0]
    /\ panic = "none"
    /\ \E g \in DOMAIN gs : \E i \in DOMAIN gs[g].Rhos : gs[g].Rhos[i] # Zero

\* the cells between the cell bounds of a tetrahedron, not wrapped
BoundsCells(cb) ==
    { << i, j, k >> : i \in cb.Min[1] .. cb.Max[1],
                      j \in cb.Min[2] .. cb.Max[2],
                      k \in cb.Min[3] .. cb.Max[3] }

CenterOf(c, cw) ==
    << RMul(RAdd(RInt(c[1]), R(1, 2)), cw),
       RMul(RAdd(RInt(c[2]), R(1, 2)), cw),
       RMul(RAdd(RInt(c[3]), R(1, 2)), cw) >>

\* the cells of grid g that are the periodic image of a cell between the
\* bounds whose centre is inside the tetrahedron
ImagesInside(g, tet, cb) ==
    { Wrap(g.BG, u[1], u[2], u[3]) :
        u \in { u \in BoundsCells(cb) : Contains(tet, CenterOf(u, g.CellWidth)) } }
    \cap WindowCells(g.G)

\* C6 as stated: a CellCenter iteration on a tetrahedron of non-zero volume
\* adds (mass/6) * cell_volume / volume to every cell of every target grid
\* whose centre, as a periodic image, is inside the tetrahedron, cells
\* past the edge of the bounding grid included, and to no other cell.
C6_CellCenterDeposit ==
    (intr.kind = "cellCenter" /\ step.kind = "tetra"
        /\ Volume(step.tet) # Zero)
    => \A g \in DOMAIN gs :
         /\ { log[g][n].cell : n \in DOMAIN log[g] }
                = ImagesInside(gs[g], step.tet, step.cb)
         /\ \A n \in DOMAIN log[g] :
                log[g][n].frac
                    = RDiv(RMul(RDiv(args.mass, RInt(6)), gs[g].CellVolume),
                           Volume(step.tet))

\* C8 as stated: a CellCenter iteration on a tetrahedron of zero volume
\* divides nothing by that volume and deposits nothing.
C8_ZeroVolumeGuard ==
    (intr.kind = "cellCenter" /\ step.kind = "tetra"
        /\ Volume(step.tet) = Zero)
    => /\ ~step.divByZero
       /\ \A g \in DOMAIN gs : log[g] = << >>

\* C9 as stated: no constructor returns an interpolator for a flag outside
\* the listed values, so that no Interpolate call fails on an unknown flag.
C9_UnknownRejected ==
    /\ intr.kind = "mcarlo" => intr.pointSelect \in {"flat", "propToCell"}
    /\ intr.kind \in {"cic1", "ngp1", "none", "ngp", "cic", "cellCenter",
                      "mcarlo", "sobol"}
    /\ panic # "nil func call"

(***************************************************************************)
(* Properties of Orient (SpecOrient).                                      *)
(***************************************************************************)
\* (t1 - t0) x (t2 - t0) . (t3 - t0)
TripleProduct(t) ==
    LET a == [i \in 1 .. 3 |-> t[2][i] - t[1][i]]
        b == [i \in 1 .. 3 |-> t[3][i] - t[1][i]]
        c == [i \in 1 .. 3 |-> t[4][i] - t[1][i]]
    IN  (a[2] * b[3] - a[3] * b[2]) * c[1]
        + (a[3] * b[1] - a[1] * b[3]) * c[2]
        + (a[1] * b[2] - a[2] * b[1]) * c[3]

\* C10 as stated: after Orient(+1) the triple product is strictly
\* positive, after Orient(-1) strictly negative.
C10_OrientSign ==
    pc = "oriented" =>
        /\ args.dir = 1 => TripleProduct(args.t) > 0
        /\ args.dir = -1 => TripleProduct(args.t) < 0

\* C10: for a tetrahedron whose triple product is not zero, after
\* Orient(+1) the triple product is strictly positive and after Orient(-1)
\* strictly negative; a tetrahedron whose triple product is zero is left
\* as it was, with triple product zero.
C10_OrientSignNonDegenerate ==
    pc = "oriented" =>
        IF TripleProduct(args.before) # 0
        THEN /\ args.dir = 1 => TripleProduct(args.t) > 0
             /\ args.dir = -1 => TripleProduct(args.t) < 0
        ELSE args.t = args.before /\ TripleProduct(args.t) = 0

\* Orient(+1) has swapped the first two vertices of a tetrahedron whose
\* triple product was negative
C10_Witness ==
    /\ pc = "oriented" /\ args.dir = 1
    /\ TripleProduct(args.before) < 0
    /\ args.t = << args.before[2], args.before[1], args.before[3],
                   args.before[4] >>
    /\ TripleProduct(args.t) > 0

\* C11 as stated: Orient(+1), then Orient(-1), then Orient(+1) leaves the
\* vertices of any tetrahedron in the order they had before the three calls.
C11_RoundTripIdentity ==
    (pc = "oriented" /\ args.dirs = << 1, -1, 1 >>) => args.t = args.orig

\* C11: Orient(+1), then Orient(-1), then Orient(+1) leaves the vertex order
\* that one Orient(+1) leaves: the order before the calls when the triple
\* product was not negative, and that order with the first two vertices
\* exchanged when it was negative.
C11_RoundTripOrients ==
    (pc = "oriented" /\ args.dirs = << 1, -1, 1 >>) =>
        args.t = (IF TripleProduct(args.orig) < 0
                  THEN << args.orig[2], args.orig[1], args.orig[3], args.orig[4] >>
                  ELSE args.orig)

\* the three calls made on a tetrahedron of positive triple product, which
\* the second call turned inward and the third turned back
C11_Witness ==
    /\ pc = "oriented" /\ args.dirs = << 1, -1, 1 >>
    /\ TripleProduct(args.orig) > 0
    /\ TripleProduct(args.before) < 0
    /\ args.t = args.orig

(***************************************************************************)
(* UnpackTetrahedra (package los).  xs maps a particle index to an integer *)
(* position; hd is the sheet header; gs is tsBuf.                          *)
(***************************************************************************)
MaxSegment == 2

coords(idx, cells) ==
    << idx % cells, (idx % (cells * cells)) \div cells, idx \div (cells * cells) >>

index(x, y, z, cells) == x + y * cells + z * cells * cells

unpackTetra(idxs, xs) == << xs[idxs[1]], xs[idxs[2]], xs[idxs[3]], xs[idxs[4]] >>

\* the body of `for dir` for one writeIdx and dir: the tetrahedron stored and
\* the slot of tsBuf it is stored in
UnpackTetrahedra_body(xs, hd, writeIdx, dir) ==
    LET c       == coords(writeIdx, hd.SegmentWidth)
        readIdx == index(c[1], c[2], c[3], hd.SegmentWidth)
        idxBuf  == TetraIdxs_Init(readIdx, hd.GridWidth + 1, 1, dir)
    IN  [tIdx |-> 6 * writeIdx + dir,
         t |-> Orient(unpackTetra(idxBuf, xs), 1)]

\* sheet headers: a segment of SegmentWidth^3 cells cut from a grid of
\* (GridWidth + 1)^3 positions that holds it (SegmentWidth <= GridWidth + 1)
Headers ==
    { hd \in [SegmentWidth : 1 .. MaxSegment, GridWidth : 1 .. MaxSegment + 1] :
        hd.SegmentWidth <= hd.GridWidth + 1 }

\* positions: particle (ix, iy, iz) of the grid sits at sp * (ix, iy, iz),
\* or at its mirror image in x
SheetXs(hd, sp, mirror) ==
    [id \in 0 .. (hd.GridWidth + 1) * (hd.GridWidth + 1) * (hd.GridWidth + 1) - 1 |->
        LET c == coords(id, hd.GridWidth + 1)
        IN  << IF mirror THEN sp * (hd.GridWidth - c[1]) ELSE sp * c[1],
               sp * c[2], sp * c[3] >>]

ZeroTetra == << << 0, 0, 0 >>, << 0, 0, 0 >>, << 0, 0, 0 >>, << 0, 0, 0 >> >>

CallUnpackTetrahedra ==
    /\ pc = "start"
    /\ \E hd \in Headers, sp \in 1 .. 2, mirror \in BOOLEAN :
         /\ args' = [xs |-> SheetXs(hd, sp, mirror), hd |-> hd]
         /\ gs' = [i \in 0 .. 6 * hd.SegmentWidth * hd.SegmentWidth
                                  * hd.SegmentWidth - 1 |-> ZeroTetra]
    /\ pos' = [i |-> 0, dir |-> 0]
    /\ pc' = "unpack"
    /\ UNCHANGED << intr, step, log, panic >>

\* one iteration of `for dir` of UnpackTetrahedra
UnpackStep ==
    /\ pc = "unpack"
    /\ LET r == UnpackTetrahedra_body(args.xs, args.hd, pos.i, pos.dir)
           n == args.hd.SegmentWidth * args.hd.SegmentWidth * args.hd.SegmentWidth
       IN  /\ gs' = [gs EXCEPT ![r.tIdx] = r.t]
           /\ pos' = Advance(pos)
           /\ pc' = IF Advance(pos).i < n THEN "unpack" ELSE "unpacked"
    /\ UNCHANGED << intr, args, step, log, panic >>

NextUnpack == CallUnpackTetrahedra \/ UnpackStep

SpecUnpack == Init /\ [][NextUnpack]_vars

\* the tetrahedron dir of the cube of the grid anchored at cell (x, y, z)
CubeTetra(xs, c, countWidth, d) ==
    LET anchor == c[1] + c[2] * countWidth + c[3] * countWidth * countWidth
        ids == TetraIdxs_Init(anchor, countWidth, 1, d)
    IN  << xs[ids[1]], xs[ids[2]], xs[ids[3]], xs[ids[4]] >>

Outward(t) ==
    IF TripleProduct(t) < 0 THEN << t[2], t[1], t[3], t[4] >> ELSE t

\* C12 as stated: when UnpackTetrahedra returns, for every cell (x, y, z) of
\* the segment, w = x + y*S + z*S^2, and every dir, tsBuf[6w + dir] is the
\* outward-oriented tetrahedron dir of the cube anchored at cell (x, y, z)
\* of the lattice of side GridWidth + 1 the indexer works on.
C12_UnpackCells ==
    pc = "unpacked" =>
        \A x \in 0 .. args.hd.SegmentWidth - 1,
           y \in 0 .. args.hd.SegmentWidth - 1,
           z \in 0 .. args.hd.SegmentWidth - 1, d \in 0 .. 5 :
            LET S == args.hd.SegmentWidth
                w == x + y * S + z * S * S
            IN  gs[6 * w + d]
                    = Outward(CubeTetra(args.xs, << x, y, z >>,
                                        args.hd.GridWidth + 1, d))

(***************************************************************************)
(* CountAll, DensityAll, WrapHalo and WrapXs (package los).  A halo is a   *)
(* record of its centre C and radius R; its radial profile is represented  *)
(* by the calls of Count and Density made on it, kept in log in program    *)
(* order.                                                                  *)
(***************************************************************************)
MaxHalos == 2
MaxTetras == 2
MaxXs == 2

SeqsUpTo(S, n) == UNION { [1 .. k -> S] : k \in 0 .. n }

\* centres and positions around an origin
LosVecs == { << -1, 0, 1 >>, << 0, -1, 2 >>, << 1, 1, -2 >>, << 2, 3, 0 >> }

HaloSet == { [C |-> c, R |-> r] : c \in LosVecs, r \in 1 .. 2 }

SphereSet == { [C |-> c, R |-> 1] : c \in LosVecs }

\* the tetrahedron stored at ts[ti]: one per index, all different
TetraNo(ti) ==
    << << ti, 0, 0 >>, << ti + 1, 0, 0 >>, << ti, 1, 0 >>, << ti, 0, 1 >> >>

DistSq(a, b) ==
    (a[1] - b[1]) * (a[1] - b[1]) + (a[2] - b[2]) * (a[2] - b[2])
        + (a[3] - b[3]) * (a[3] - b[3])

\* HaloProfiles.SphereIntersect: the broad-phase test of a halo and the
\* bounding sphere of a tetrahedron
SphereIntersect(h, s) == DistSq(h.C, s.C) <= (h.R + s.R) * (h.R + s.R)

\* the body of `for ti` of CountAll: the calls it makes on halo hi
CountAll_body_notest(hs, ts, ss, hi, ti) ==
    << [op |-> "Count", hi |-> hi, t |-> ts[ti]] >>

CountAll_body(hs, ts, ss, hi, ti) ==
    IF SphereIntersect(hs[hi], ss[ti])
    THEN << [op |-> "Count", hi |-> hi, t |-> ts[ti]] >>
    ELSE << >>

\* the body of `for ti` of DensityAll
DensityAll_body(hs, ts, ss, rhos, hi, ti) ==
    IF SphereIntersect(hs[hi], ss[ti])
    THEN << [op |-> "Density", hi |-> hi, t |-> ts[ti], rho |-> rhos[ti]] >>
    ELSE << >>

\* for hi := range hs { for ti := range ts { ... } }, from (hi, ti) on
RECURSIVE CountAll_loop(_, _, _, _, _)
CountAll_loop(hs, ts, ss, hi, ti) ==
    IF hi > Len(hs) THEN << >>
    ELSE IF ti > Len(ts) THEN CountAll_loop(hs, ts, ss, hi + 1, 1)
    ELSE CountAll_body(hs, ts, ss, hi, ti)
            \o CountAll_loop(hs, ts, ss, hi, ti + 1)

RECURSIVE DensityAll_loop(_, _, _, _, _, _)
DensityAll_loop(hs, ts, ss, rhos, hi, ti) ==
    IF hi > Len(hs) THEN << >>
    ELSE IF ti > Len(ts) THEN DensityAll_loop(hs, ts, ss, rhos, hi + 1, 1)
    ELSE DensityAll_body(hs, ts, ss, rhos, hi, ti)
            \o DensityAll_loop(hs, ts, ss, rhos, hi, ti + 1)

\* the inputs of CountAll and DensityAll: ss and rhos are as long as ts
LosInputs ==
    { [hs |-> hs, ts |-> [ti \in DOMAIN ss |-> TetraNo(ti)], ss |-> ss,
       rhos |-> [ti \in DOMAIN ss |-> ti + 1]] :
        hs \in SeqsUpTo(HaloSet, MaxHalos), ss \in SeqsUpTo(SphereSet, MaxTetras) }

CountAll ==
    /\ pc = "start"
    /\ \E in \in LosInputs :
         /\ args' = [in EXCEPT !.rhos = << >>]
         /\ log' = CountAll_loop(in.hs, in.ts, in.ss, 1, 1)
    /\ pc' = "counted"
    /\ UNCHANGED << intr, gs, pos, step, panic >>

DensityAll ==
    /\ pc = "start"
    /\ \E in \in LosInputs :
         /\ args' = in
         /\ log' = DensityAll_loop(in.hs, in.ts, in.ss, in.rhos, 1, 1)
    /\ pc' = "densities"
    /\ UNCHANGED << intr, gs, pos, step, panic >>

\* the part of the sheet header WrapHalo and WrapXs read
WrapHeaders ==
    [TotalWidth : 3 .. 4, Origin : { << 0, 0, 0 >>, << 1, 0, 2 >> }]

\* the body of `for i` of WrapHalo: the halo after the three axes
WrapHalo_body_centre(h, hd) ==
    [h EXCEPT !.C = [j \in 1 .. 3 |->
        IF h.C[j] < hd.Origin[j] THEN h.C[j] + hd.TotalWidth ELSE h.C[j]]]

WrapHalo_body(h, hd) ==
    [h EXCEPT !.C = [j \in 1 .. 3 |->
        IF h.C[j] + h.R < hd.Origin[j] THEN h.C[j] + hd.TotalWidth ELSE h.C[j]]]

\* the body of `for i` of WrapXs: the position after the three axes
WrapXs_body(x, hd) ==
    [j \in 1 .. 3 |-> IF x[j] < hd.Origin[j] THEN x[j] + hd.TotalWidth ELSE x[j]]

WrapHalo ==
    /\ pc = "start"
    /\ \E hps \in SeqsUpTo(HaloSet, MaxHalos), hd \in WrapHeaders :
         /\ args' = [hps |-> hps, hd |-> hd]
         /\ gs' = [i \in DOMAIN hps |-> WrapHalo_body(hps[i], hd)]
    /\ pc' = "wrappedHalo"
    /\ UNCHANGED << intr, pos, step, log, panic >>

WrapXs ==
    /\ pc = "start"
    /\ \E xs \in SeqsUpTo(LosVecs, MaxXs), hd \in WrapHeaders :
         /\ args' = [xs |-> xs, hd |-> hd]
         /\ gs' = [i \in DOMAIN xs |-> WrapXs_body(xs[i], hd)]
    /\ pc' = "wrappedXs"
    /\ UNCHANGED << intr, pos, step, log, panic >>

NextLos == CountAll \/ DensityAll \/ WrapHalo \/ WrapXs

SpecLos == Init /\ [][NextLos]_vars

\* the calls of log made on halo hi with tetrahedron t
CallsOn(hi, t) == { k \in DOMAIN log : log[k].hi = hi /\ log[k].t = t }

\* C13: when CountAll (DensityAll) returns, for every halo hi and tetra index
\* ti, Count(ts[ti]) (Density(ts[ti], rhos[ti])) was called on halo hi exactly
\* once if SphereIntersect(hs[hi], ss[ti]) and never otherwise, and every
\* call made is one of these.
C13_OuterProduct ==
    pc \in { "counted", "densities" } =>
        /\ \A hi \in DOMAIN args.hs, ti \in DOMAIN args.ts :
             Cardinality(CallsOn(hi, args.ts[ti]))
                 = IF SphereIntersect(args.hs[hi], args.ss[ti]) THEN 1 ELSE 0
        /\ \A k \in DOMAIN log :
             /\ log[k].hi \in DOMAIN args.hs
             /\ log[k].op = IF pc = "counted" THEN "Count" ELSE "Density"
             /\ \E ti \in DOMAIN args.ts :
                  /\ log[k].t = args.ts[ti]
                  /\ pc = "densities" => log[k].rho = args.rhos[ti]

\* two halos and two tetrahedra, of whose four pairs some intersect and some
\* do not, after CountAll
C13_Witness ==
    /\ pc = "counted"
    /\ Len(args.hs) = 2 /\ Len(args.ts) = 2
    /\ Len(log) = 2
    /\ SphereIntersect(args.hs[1], args.ss[2])
    /\ ~SphereIntersect(args.hs[1], args.ss[1])
    /\ ~SphereIntersect(args.hs[2], args.ss[2])

\* C14 as stated: a position component (WrapXs) or a halo-centre component
\* (WrapHalo) is increased by total_width if and only if it is below the
\* origin on its axis, and is unchanged otherwise.
C14_WrapBelowOrigin ==
    /\ pc = "wrappedXs" =>
         \A i \in DOMAIN args.xs, j \in 1 .. 3 :
            gs[i][j] = IF args.xs[i][j] < args.hd.Origin[j]
                       THEN args.xs[i][j] + args.hd.TotalWidth
                       ELSE args.xs[i][j]
    /\ pc = "wrappedHalo" =>
         \A i \in DOMAIN args.hps, j \in 1 .. 3 :
            gs[i].C[j] = IF args.hps[i].C[j] < args.hd.Origin[j]
                         THEN args.hps[i].C[j] + args.hd.TotalWidth
                         ELSE args.hps[i].C[j]

\* C14 amended: WrapXs as stated; WrapHalo increases a halo-centre component
\* by total_width if and only if the component plus the halo's radius is
\* below the origin on its axis, and changes nothing else of the halo.
C14_WrapHaloWhole ==
    /\ pc = "wrappedXs" =>
         /\ DOMAIN gs = DOMAIN args.xs
         /\ \A i \in DOMAIN args.xs, j \in 1 .. 3 :
              gs[i][j] = IF args.xs[i][j] < args.hd.Origin[j]
                         THEN args.xs[i][j] + args.hd.TotalWidth
                         ELSE args.xs[i][j]
    /\ pc = "wrappedHalo" =>
         /\ DOMAIN gs = DOMAIN args.hps
         /\ \A i \in DOMAIN args.hps :
              /\ gs[i].R = args.hps[i].R
              /\ \A j \in 1 .. 3 :
                   gs[i].C[j] = IF args.hps[i].C[j] + args.hps[i].R < args.hd.Origin[j]
                                THEN args.hps[i].C[j] + args.hd.TotalWidth
                                ELSE args.hps[i].C[j]

\* a halo with one component shifted, one below the origin but within a
\* radius of it and left alone, and one at or above the origin
C14_Witness ==
    /\ pc = "wrappedHalo"
    /\ \E i \in DOMAIN args.hps :
         /\ \E j \in 1 .. 3 :
              /\ args.hps[i].C[j] + args.hps[i].R < args.hd.Origin[j]
              /\ gs[i].C[j] = args.hps[i].C[j] + args.hd.TotalWidth
         /\ \E j \in 1 .. 3 :
              /\ args.hps[i].C[j] < args.hd.Origin[j]
              /\ args.hps[i].C[j] + args.hps[i].R >= args.hd.Origin[j]
              /\ gs[i].C[j] = args.hps[i].C[j]
         /\ \E j \in 1 .. 3 :
              /\ args.hps[i].C[j] >= args.hd.Origin[j]
              /\ gs[i].C[j] = args.hps[i].C[j]

(***************************************************************************)
(* Package mat: LU factorisation and the solvers built on it.  A matrix is *)
(* [Vals, Width, Height] with Vals a function on 0 .. Width*Height - 1 in  *)
(* row-major order.  float64 values are exact rationals, or one of +Inf,   *)
(* -Inf and NaN (d = 0 and n = 1, -1, 0); a zero divisor is +0, since a    *)
(* diagonal entry of lu is an entry of the matrix or the result of a       *)
(* subtraction, which is never -0.                                         *)
(***************************************************************************)
MaxN == 3
MaxEntry == 1

NegInf == [n |-> -1, d |-> 0]
NaN == [n |-> 0, d |-> 0]

IsFinite(a) == a.d # 0
IsNaN(a) == a.d = 0 /\ a.n = 0

FNeg(a) == [n |-> -a.n, d |-> a.d]

FAbs(a) == [n |-> Abs(a.n), d |-> a.d]

FAdd(a, b) ==
    IF IsNaN(a) \/ IsNaN(b) THEN NaN
    ELSE IF ~IsFinite(a) /\ ~IsFinite(b) THEN (IF a.n = b.n THEN a ELSE NaN)
    ELSE IF ~IsFinite(a) THEN a
    ELSE IF ~IsFinite(b) THEN b
    ELSE R(a.n * b.d + b.n * a.d, a.d * b.d)

FSub(a, b) == FAdd(a, FNeg(b))

FMul(a, b) ==
    IF IsNaN(a) \/ IsNaN(b) THEN NaN
    ELSE IF ~IsFinite(a) \/ ~IsFinite(b)
    THEN (IF RSign(a) * RSign(b) = 0 THEN NaN
          ELSE [n |-> RSign(a) * RSign(b), d |-> 0])
    ELSE R(a.n * b.n, a.d * b.d)

FDiv(a, b) ==
    IF IsNaN(a) \/ IsNaN(b) THEN NaN
    ELSE IF ~IsFinite(a) /\ ~IsFinite(b) THEN NaN
    ELSE IF ~IsFinite(a) THEN [n |-> IF b.n < 0 THEN -a.n ELSE a.n, d |-> 0]
    ELSE IF ~IsFinite(b) THEN Zero
    ELSE IF b.n = 0 THEN [n |-> RSign(a), d |-> 0]
    ELSE R(a.n * b.d, a.d * b.n)

NewMatrix(vals, width, height) ==
    IF width <= 0 THEN [panic |-> "width must be positive."]
    ELSE IF height <= 0 THEN [panic |-> "height must be positive."]
    ELSE IF width * height # Cardinality(DOMAIN vals)
    THEN [panic |-> "height * width must equal len(vals)."]
    ELSE [panic |-> "none", Vals |-> vals, Width |-> width, Height |-> height]

\* divs is not a field of LUFactors: it records the divisors lu[kOffset + k]
\* used by LUFactorsAt, in program order
NewLUFactors(n) ==
    [lu |-> [Vals |-> [i \in 0 .. n * n - 1 |-> Zero], Width |-> n, Height |-> n],
     pivot |-> [i \in 0 .. n - 1 |-> 0],
     d |-> One,
     divs |-> << >>]

RECURSIVE findMaxRow_loop(_, _, _, _, _, _)
findMaxRow_loop(n, m, col, i, max, maxRow) ==
    IF i >= n THEN maxRow
    ELSE LET val == FAbs(m[i * n + col])
         IN  IF RLess(max, val)
             THEN findMaxRow_loop(n, m, col, i + 1, val, i)
             ELSE findMaxRow_loop(n, m, col, i + 1, max, maxRow)

findMaxRow(n, m, col) == findMaxRow_loop(n, m, col, col, RInt(-1), 0)

swapRows(i1, i2, n, lu) ==
    [idx \in DOMAIN lu |->
        IF idx \div n = i1 THEN lu[n * i2 + (idx % n)]
        ELSE IF idx \div n = i2 THEN lu[n * i1 + (idx % n)]
        ELSE lu[idx]]

\* the loop "Swap rows." of LUFactorsAt from k on; mat is m.Vals
RECURSIVE LUFactorsAt_swap(_, _, _, _)
LUFactorsAt_swap(n, mat, k, luf) ==
    IF k >= n THEN luf
    ELSE LET maxRow == findMaxRow(n, mat, k)
             pivot  == [luf.pivot EXCEPT ![k] = luf.pivot[maxRow],
                                         ![maxRow] = luf.pivot[k]]
         IN  LUFactorsAt_swap(n, mat, k + 1,
                IF k # maxRow
                THEN [luf EXCEPT !.pivot = pivot,
                                 !.lu.Vals = swapRows(k, maxRow, n, luf.lu.Vals),
                                 !.d = FNeg(luf.d)]
                ELSE [luf EXCEPT !.pivot = pivot])

\* the body of `for k` of the second loop of LUFactorsAt: rows i > k
LUFactorsAt_elim_k(n, k, lu) ==
    [idx \in DOMAIN lu |->
        LET i == idx \div n
            j == idx % n
        IN  IF i > k /\ j = k THEN FDiv(lu[idx], lu[k * n + k])
            ELSE IF i > k /\ j > k
            THEN FSub(lu[idx], FMul(FDiv(lu[i * n + k], lu[k * n + k]), lu[k * n + j]))
            ELSE lu[idx]]

RECURSIVE LUFactorsAt_elim(_, _, _)
LUFactorsAt_elim(n, k, luf) ==
    IF k >= n THEN luf
    ELSE LUFactorsAt_elim(n, k + 1,
            [luf EXCEPT !.lu.Vals = LUFactorsAt_elim_k(n, k, luf.lu.Vals),
                        !.divs = IF k + 1 < n
                                 THEN Append(luf.divs, luf.lu.Vals[k * n + k])
                                 ELSE luf.divs])

LUFactorsAt(m, luf) ==
    IF luf.lu.Width # m.Width \/ luf.lu.Height # m.Height
    THEN [panic |-> "luf has different dimenstions than m."]
    ELSE LET n  == m.Width
             l0 == [luf EXCEPT !.pivot = [i \in 0 .. n - 1 |-> i],
                               !.d = One,
                               !.lu.Vals = m.Vals]
         IN  [panic |-> "none",
              luf |-> LUFactorsAt_elim(n, 0, LUFactorsAt_swap(n, m.Vals, 0, l0))]

Matrix_LU(m) ==
    IF m.Width # m.Height THEN [panic |-> "m is non-square."]
    ELSE LUFactorsAt(m, NewLUFactors(m.Width))

\* the first loop of forwardSubst, from i on
RECURSIVE forwardSubst_permute(_, _, _, _, _)
forwardSubst_permute(n, pivot, bs, ys, i) ==
    IF i >= n THEN ys
    ELSE forwardSubst_permute(n, pivot, bs, [ys EXCEPT ![pivot[i]] = bs[i]], i + 1)

\* for j := 0; j < i; j++ { sum += lu[i*n + j] * ys[j] }, from j on
RECURSIVE forwardSubst_sum(_, _, _, _, _, _)
forwardSubst_sum(n, lu, ys, i, j, sum) ==
    IF j >= i THEN sum
    ELSE forwardSubst_sum(n, lu, ys, i, j + 1, FAdd(sum, FMul(lu[i * n + j], ys[j])))

\* the second loop of forwardSubst, from i on
RECURSIVE forwardSubst_rows(_, _, _, _)
forwardSubst_rows(n, lu, ys, i) ==
    IF i >= n THEN ys
    ELSE forwardSubst_rows(n, lu,
            [ys EXCEPT ![i] = FSub(ys[i], forwardSubst_sum(n, lu, ys, i, 0, Zero))], i + 1)

forwardSubst(n, pivot, lu, bs, ys) ==
    forwardSubst_rows(n, lu, forwardSubst_permute(n, pivot, bs, ys, 0), 0)

\* for j := i + 1; j < n; j++ { sum += lu[i*n + j] * xs[j] }, from j on
RECURSIVE backSubst_sum(_, _, _, _, _, _)
backSubst_sum(n, lu, xs, i, j, sum) ==
    IF j >= n THEN sum
    ELSE backSubst_sum(n, lu, xs, i, j + 1, FAdd(sum, FMul(lu[i * n + j], xs[j])))

\* backSubst from row i down; SolveVector calls it with ys and xs the same
\* slice
RECURSIVE backSubst(_, _, _, _)
backSubst(n, lu, xs, i) ==
    IF i < 0 THEN xs
    ELSE backSubst(n, lu,
            [xs EXCEPT ![i] = FDiv(FSub(xs[i], backSubst_sum(n, lu, xs, i, i + 1, Zero)),
                                   lu[i * n + i])], i - 1)

\* SolveVector(bs, xs); same tells whether bs and xs are one slice.  The
\* result gives both slices on return.
SolveVector(luf, bs, xs, same) ==
    LET n == luf.lu.Width
    IN  IF n # Cardinality(DOMAIN bs) THEN [panic |-> "len(b) != luf.Width"]
        ELSE IF n # Cardinality(DOMAIN xs) THEN [panic |-> "len(x) != luf.Width"]
        ELSE LET b0  == IF same THEN xs ELSE bs
                 ys  == forwardSubst(n, luf.pivot, luf.lu.Vals, b0, xs)
                 out == backSubst(n, luf.lu.Vals, ys, n - 1)
             IN  [panic |-> "none", xs |-> out, bs |-> IF same THEN out ELSE bs]

\* for j := 0; j < n; j++ { ... } of SolveMatrix, from column j on
RECURSIVE SolveMatrix_cols(_, _, _, _)
SolveMatrix_cols(luf, n, xs, j) ==
    IF j >= n THEN xs
    ELSE LET col == [i \in 0 .. n - 1 |-> xs[i * n + j]]
             sol == SolveVector(luf, col, col, TRUE).xs
         IN  SolveMatrix_cols(luf, n,
                [idx \in DOMAIN xs |-> IF idx % n = j THEN sol[idx \div n] ELSE xs[idx]],
                j + 1)

\* SolveMatrix(b, x); same tells whether b and x are one matrix.  The result
\* gives both matrices on return.
SolveMatrix(luf, b, x, same) ==
    LET n == luf.lu.Width
    IN  IF b.Width # b.Height THEN [panic |-> "b matrix is non-square."]
        ELSE IF x.Width # x.Height THEN [panic |-> "x matrix is non-square."]
        ELSE IF n # b.Width THEN [panic |-> "b matrix different size than m matrix."]
        ELSE IF n # x.Width THEN [panic |-> "x matrix different size than m matrix."]
        ELSE LET out == [x EXCEPT !.Vals = SolveMatrix_cols(luf, n, x.Vals, 0)]
             IN  [panic |-> "none", x |-> out, b |-> IF same THEN out ELSE b]

Invert(luf, out) ==
    LET n == luf.lu.Width
    IN  IF out.Width # out.Height THEN [panic |-> "out matrix is non-square."]
        ELSE IF n # out.Width
        THEN [panic |-> "out matrix different size than m matrix."]
        ELSE LET id == [out EXCEPT !.Vals =
                          [idx \in DOMAIN out.Vals |->
                              IF idx \div n = idx % n THEN One ELSE Zero]]
             IN  SolveMatrix(luf, id, id, TRUE)

\* matrices and vectors of small integers
MatrixSet(w, h) ==
    { [Vals |-> [idx \in 0 .. w * h - 1 |-> RInt(v[idx])], Width |-> w, Height |-> h] :
        v \in [0 .. w * h - 1 -> 0 .. MaxEntry] }

VectorSet(l) == { [i \in 0 .. l - 1 |-> RInt(v[i])] : v \in [0 .. l - 1 -> 0 .. MaxEntry] }

ZeroMatrix(n) == [Vals |-> [idx \in 0 .. n * n - 1 |-> Zero], Width |-> n, Height |-> n]

IdentityMatrix(n) ==
    [Vals |-> [idx \in 0 .. n * n - 1 |-> IF idx \div n = idx % n THEN One ELSE Zero],
     Width |-> n, Height |-> n]

\* m.LU()
CallLU ==
    /\ pc = "start"
    /\ \E w \in 1 .. MaxN, h \in 1 .. MaxN :
         \E m \in MatrixSet(w, h) :
            LET r == Matrix_LU(m)
            IN  /\ args' = [m |-> m]
                /\ panic' = r.panic
                /\ pc' = IF r.panic = "none" THEN "factored" ELSE "panic"
                /\ intr' = IF r.panic = "none" THEN r.luf ELSE intr
    /\ UNCHANGED << gs, pos, step, log >>

\* luf.SolveVector(bs, xs), with one slice for both or with two
CallSolveVector ==
    /\ pc = "factored"
    /\ \E l \in 1 .. MaxN, same \in BOOLEAN :
         \E bs \in VectorSet(l) :
            LET xs == IF same THEN bs ELSE [i \in 0 .. intr.lu.Width - 1 |-> Zero]
                r  == SolveVector(intr, bs, xs, same)
            IN  /\ args' = [m |-> args.m, bs |-> bs, xs |-> xs, same |-> same]
                /\ panic' = r.panic
                /\ pc' = IF r.panic = "none" THEN "solved" ELSE "panic"
                /\ gs' = IF r.panic = "none" THEN [bs |-> r.bs, xs |-> r.xs] ELSE gs
    /\ UNCHANGED << intr, pos, step, log >>

\* luf.SolveMatrix(b, x), with one matrix for both or with two
CallSolveMatrix ==
    /\ pc = "factored"
    /\ \E b \in { IdentityMatrix(intr.lu.Width), args.m }, same \in BOOLEAN :
         \E x \in IF same THEN { b }
                  ELSE { ZeroMatrix(intr.lu.Width), IdentityMatrix(intr.lu.Width) } :
            LET r == SolveMatrix(intr, b, x, same)
            IN  /\ args' = [m |-> args.m, b |-> b, x |-> x, same |-> same]
                /\ panic' = r.panic
                /\ pc' = IF r.panic = "none" THEN "solvedMatrix" ELSE "panic"
                /\ gs' = IF r.panic = "none" THEN [b |-> r.b, x |-> r.x] ELSE gs
    /\ UNCHANGED << intr, pos, step, log >>

\* luf.Invert(out)
CallInvert ==
    /\ pc = "factored"
    /\ \E out \in { ZeroMatrix(intr.lu.Width), args.m } :
         LET r == Invert(intr, out)
         IN  /\ args' = [m |-> args.m, out |-> out]
             /\ panic' = r.panic
             /\ pc' = IF r.panic = "none" THEN "inverted" ELSE "panic"
             /\ gs' = IF r.panic = "none" THEN [out |-> r.x] ELSE gs
    /\ UNCHANGED << intr, pos, step, log >>

NextMat == CallLU \/ CallSolveVector \/ CallSolveMatrix \/ CallInvert

SpecMat == Init /\ [][NextMat]_vars

\* the determinant of an n*n matrix of integers, by expansion along row 0
RECURSIVE DetVals(_, _)
DetVals(v, n) ==
    IF n = 1 THEN v[0].n
    ELSE LET minor(c) == [idx \in 0 .. (n - 1) * (n - 1) - 1 |->
                            LET i == idx \div (n - 1) + 1
                                j == idx % (n - 1)
                            IN  v[i * n + (IF j < c THEN j ELSE j + 1)]]
             term(c) == (IF c % 2 = 0 THEN 1 ELSE -1) * v[c].n * DetVals(minor(c), n - 1)
         IN  IF n = 2 THEN term(0) + term(1) ELSE term(0) + term(1) + term(2)

NonSingular(m) == m.Width = m.Height /\ DetVals(m.Vals, m.Width) # 0

\* row i of m times the vector xs, in exact arithmetic
RECURSIVE RowTimes(_, _, _, _)
RowTimes(m, xs, i, j) ==
    IF j >= m.Width THEN Zero
    ELSE FAdd(FMul(m.Vals[i * m.Width + j], xs[j]), RowTimes(m, xs, i, j + 1))

\* C15: after m.LU() of a matrix with non-zero determinant and
\* SolveVector(bs, xs), no divisor used by the factorisation was zero,
\* M * xs = bs, and xs is what the call with the other aliasing of bs and xs
\* leaves.
C15_LUSolve ==
    (pc = "solved" /\ NonSingular(args.m)) =>
        /\ \A k \in DOMAIN intr.divs : intr.divs[k] # Zero
        /\ \A i \in 0 .. args.m.Width - 1 :
             /\ IsFinite(gs.xs[i])
             /\ RowTimes(args.m, gs.xs, i, 0) = args.bs[i]
        /\ gs.xs = SolveVector(intr, args.bs,
                               IF args.same
                               THEN [i \in 0 .. intr.lu.Width - 1 |-> Zero]
                               ELSE args.bs,
                               ~args.same).xs

\* the columns of x times m give the columns of b
MatrixSolves(m, x, b) ==
    \A i \in 0 .. m.Width - 1, j \in 0 .. m.Width - 1 :
        LET col == [r \in 0 .. m.Width - 1 |-> x.Vals[r * m.Width + j]]
        IN  /\ \A r \in 0 .. m.Width - 1 : IsFinite(col[r])
            /\ RowTimes(m, col, i, 0) = b.Vals[i * m.Width + j]

\* C16: after SolveMatrix(b, x) on the factors of a matrix m with non-zero
\* determinant, m * x = b for the b passed in, whether b and x are one
\* matrix or two, and a separate b is unchanged.
C16_SolveMatrix ==
    (pc = "solvedMatrix" /\ NonSingular(args.m)) =>
        /\ MatrixSolves(args.m, gs.x, args.b)
        /\ ~args.same => gs.b = args.b

(***************************************************************************)
(* BoxConfig.CheckInit (package io).  Coordinates are integers; a string   *)
(* is the sequence of its characters.                                      *)
(***************************************************************************)
MaxWidth == 2

\* unicode.ToUpper on the letters that occur
ToUpperChar(c) ==
    CASE c = "x" -> "X"
      [] c = "y" -> "Y"
      [] c = "z" -> "Z"
      [] c = "w" -> "W"
      [] OTHER -> c

strings_ToUpper(s) == [i \in DOMAIN s |-> ToUpperChar(s[i])]

\* the box after the call and the error returned ("nil" for no error,
\* otherwise the parameter the message names)
BoxConfig_CheckInit(box, name, totalWidth) ==
    IF box.XWidth <= 0 THEN [box |-> box, err |-> "XWidth"]
    ELSE IF box.YWidth <= 0 THEN [box |-> box, err |-> "YWidth"]
    ELSE IF box.ZWidth <= 0 THEN [box |-> box, err |-> "ZWidth"]
    ELSE IF box.X >= totalWidth \/ box.X < 0 THEN [box |-> box, err |-> "X"]
    ELSE IF box.Y >= totalWidth \/ box.Y < 0 THEN [box |-> box, err |-> "Y"]
    ELSE IF box.Z >= totalWidth \/ box.Z < 0 THEN [box |-> box, err |-> "Z"]
    ELSE LET up == [box EXCEPT !.ProjectionAxis = strings_ToUpper(box.ProjectionAxis)]
         IN  IF \/ up.ProjectionAxis # << >>
                \/ up.ProjectionAxis # << "X" >>
                \/ up.ProjectionAxis # << "Y" >>
                \/ up.ProjectionAxis # << "Z" >>
             THEN [box |-> up, err |-> "ProjectionAxis"]
             ELSE [box |-> [up EXCEPT !.Name = name], err |-> "nil"]

AxisStrings ==
    { << >>, << "x" >>, << "X" >>, << "y" >>, << "Y" >>, << "z" >>, << "Z" >>,
      << "w" >>, << "X", "y" >> }

BoxConfigs ==
    [X : -1 .. MaxWidth, Y : -1 .. MaxWidth, Z : -1 .. MaxWidth,
     XWidth : 0 .. 1, YWidth : 0 .. 1, ZWidth : 0 .. 1,
     ProjectionAxis : AxisStrings, Name : { "" }]

CallCheckInit ==
    /\ pc = "start"
    /\ \E box \in BoxConfigs, totalWidth \in 1 .. MaxWidth :
         LET r == BoxConfig_CheckInit(box, "my_z_slice", totalWidth)
         IN  /\ args' = [box |-> box, name |-> "my_z_slice", totalWidth |-> totalWidth]
             /\ intr' = r.box
             /\ gs' = [err |-> r.err]
    /\ pc' = "checked"
    /\ UNCHANGED << pos, step, log, panic >>

NextBox == CallCheckInit

SpecBox == Init /\ [][NextBox]_vars

\* the conditions C17 lists for a box
ValidBox(box, totalWidth) ==
    /\ box.XWidth > 0 /\ box.YWidth > 0 /\ box.ZWidth > 0
    /\ 0 <= box.X /\ box.X < totalWidth
    /\ 0 <= box.Y /\ box.Y < totalWidth
    /\ 0 <= box.Z /\ box.Z < totalWidth
    /\ box.ProjectionAxis \in
         { << >>, << "x" >>, << "X" >>, << "y" >>, << "Y" >>, << "z" >>, << "Z" >> }

\* C17: CheckInit returns nil exactly for the boxes with positive widths, an
\* origin in [0, totalWidth) on every axis and a ProjectionAxis that is empty
\* or one of X, Y, Z in either case, and it sets the name of those boxes.
C17_BoxValidation ==
    pc = "checked" =>
        /\ (gs.err = "nil") <=> ValidBox(args.box, args.totalWidth)
        /\ ValidBox(args.box, args.totalWidth) => intr.Name = args.name

(***************************************************************************)
(* The face and edge tables of Tetra and PluckerTetra (package geom).      *)
(* Faces, vertices and edges are numbered from 0 as in the source; a       *)
(* Plucker vector is represented by the segment it was initialised from.   *)
(***************************************************************************)
tetraIdxs ==
    << << 3, 2, 1 >>,
       << 2, 3, 0 >>,
       << 1, 0, 3 >>,
       << 0, 1, 2 >> >>

VertexIdx(face, vertex) == tetraIdxs[face + 1][vertex + 1]

pluckerTetraEdges ==
    << << 5, 3, 4 >>,
       << 5, 2, 1 >>,
       << 0, 2, 4 >>,
       << 0, 3, 1 >> >>

pluckerTetraFlips ==
    << << TRUE, TRUE, FALSE >>,
       << FALSE, TRUE, FALSE >>,
       << TRUE, FALSE, TRUE >>,
       << FALSE, FALSE, TRUE >> >>

\* pt[k].InitFromSegment(&t[a], &t[b]) for the six edges in raw order
PluckerTetra_Init(t) ==
    [k \in 0 .. 5 |->
        CASE k = 0 -> [P1 |-> t[1], P2 |-> t[2]]
          [] k = 1 -> [P1 |-> t[1], P2 |-> t[3]]
          [] k = 2 -> [P1 |-> t[1], P2 |-> t[4]]
          [] k = 3 -> [P1 |-> t[2], P2 |-> t[3]]
          [] k = 4 -> [P1 |-> t[2], P2 |-> t[4]]
          [] k = 5 -> [P1 |-> t[3], P2 |-> t[4]]]

EdgeIdx_noflip(face, edge) ==
    [idx |-> pluckerTetraEdges[face + 1][edge + 1], flip |-> FALSE]

EdgeIdx(face, edge) ==
    [idx |-> pluckerTetraEdges[face + 1][edge + 1],
     flip |-> pluckerTetraFlips[face + 1][edge + 1]]

\* pt.Init(t)
CallPluckerInit ==
    /\ pc = "tetra"
    /\ intr' = PluckerTetra_Init(args.t)
    /\ pc' = "plucker"
    /\ UNCHANGED << gs, args, pos, step, log, panic >>

\* pt.EdgeIdx(face, edge), with t.VertexIdx of the two ends of that slot
CallEdgeIdx ==
    /\ pc \in { "plucker", "edge" }
    /\ \E face \in 0 .. 3, edge \in 0 .. 2 :
         /\ pos' = [face |-> face, edge |-> edge]
         /\ step' = [e |-> EdgeIdx(face, edge),
                     v0 |-> VertexIdx(face, edge),
                     v1 |-> VertexIdx(face, (edge + 1) % 3)]
    /\ pc' = "edge"
    /\ UNCHANGED << intr, gs, args, log, panic >>

NextFace == CallPluckerInit \/ CallEdgeIdx

SpecFace == InitOrient /\ [][NextFace]_vars

\* the slots (face, edge) whose edge is the raw edge k
SlotsOf(k) ==
    { s \in (0 .. 3) \X (0 .. 2) : EdgeIdx(s[1], s[2]).idx = k }

\* C19: the edge returned for slot (f, e) is the segment between vertices
\* VertexIdx(f, e) and VertexIdx(f, (e + 1) mod 3), stored from the first to
\* the second when flip is false and from the second to the first when flip
\* is true; face f has three different vertices, none of them f; and every
\* raw edge is the edge of exactly two slots, with different flip flags.
C19_FaceEdgeTables ==
    /\ pc = "edge" =>
         LET seg == intr[step.e.idx]
             a   == args.t[step.v0 + 1]
             b   == args.t[step.v1 + 1]
         IN  /\ step.e.idx \in 0 .. 5
             /\ step.v0 # step.v1
             /\ seg = IF step.e.flip THEN [P1 |-> b, P2 |-> a]
                                     ELSE [P1 |-> a, P2 |-> b]
    /\ \A f \in 0 .. 3 :
         { VertexIdx(f, 0), VertexIdx(f, 1), VertexIdx(f, 2) } = (0 .. 3) \ { f }
    /\ \A k \in 0 .. 5 :
         /\ Cardinality(SlotsOf(k)) = 2
         /\ \E s1 \in SlotsOf(k), s2 \in SlotsOf(k) :
              EdgeIdx(s1[1], s1[2]).flip /\ ~EdgeIdx(s2[1], s2[2]).flip

\* a slot whose stored edge runs against the face, on a tetrahedron with four
\* different vertices
C19_Witness ==
    /\ pc = "edge"
    /\ step.e.flip
    /\ pos = [face |-> 2, edge |-> 2]
    /\ Cardinality({ args.t[1], args.t[2], args.t[3], args.t[4] }) = 4
    /\ intr[step.e.idx] = [P1 |-> args.t[2], P2 |-> args.t[4]]

(***************************************************************************)
(* Smooth and its kernel caches (package analyze).  intr holds the package *)
(* variables kernels and derivKernels, maps from window to kernel.  A      *)
(* kernel is represented by the arguments it was built with, a convolution *)
(* by its kernel and its input.                                            *)
(***************************************************************************)
MaxLen == 3
MaxX == 2
MaxWindow == 2
MaxSmooth == 2

NewSavGolKernel(order, window) ==
    [order |-> order, window |-> window]

NewSavGolDerivKernel(dx, deriv, order, window) ==
    [dx |-> dx, deriv |-> deriv, order |-> order, window |-> window]

\* the kernels returned and the caches after the call
getSmoothingKernel(caches, window, dx) ==
    IF window \in DOMAIN caches.kernels
    THEN [k |-> caches.kernels[window], kd |-> caches.derivKernels[window],
          caches |-> caches]
    ELSE LET k  == NewSavGolKernel(4, window)
             kd == NewSavGolDerivKernel(dx, 1, 4, window)
         IN  [k |-> k, kd |-> kd,
              caches |-> [kernels |-> [w \in DOMAIN caches.kernels \cup { window } |->
                                          IF w = window THEN k ELSE caches.kernels[w]],
                          derivKernels |->
                              [w \in DOMAIN caches.derivKernels \cup { window } |->
                                  IF w = window THEN kd ELSE caches.derivKernels[w]]]]

\* dx := (xs[0] - xs[len(xs) - 1]) / float64(len(xs) - 1)
Smooth_dx(xs) == RDiv(RInt(xs[1] - xs[Len(xs)]), RInt(Len(xs) - 1))

\* Smooth(xs, ys, window) without options
Smooth(caches, xs, ys, window) ==
    IF Len(xs) # Len(ys)
    THEN [panic |-> "Length of xs and ys must be the same.", caches |-> caches]
    ELSE IF Len(xs) <= window
    THEN [panic |-> "none", ok |-> FALSE, caches |-> caches]
    ELSE LET g == getSmoothingKernel(caches, window, Smooth_dx(xs))
         IN  [panic |-> "none", ok |-> TRUE, caches |-> g.caches,
              vals |-> [kernel |-> g.k, ys |-> ys],
              derivs |-> [kernel |-> g.kd, ys |-> ys]]

InitSmooth ==
    /\ pc = "smooth"
    /\ intr = [kernels |-> << >>, derivKernels |-> << >>]
    /\ gs = << >>
    /\ args = NoArgs
    /\ pos = NoPos
    /\ step = NoStep
    /\ log = << >>
    /\ panic = "none"

CallSmooth ==
    /\ pc \in { "smooth", "smoothed" }
    /\ Len(log) < MaxSmooth
    /\ \E l \in 1 .. MaxLen, window \in 1 .. MaxWindow, extra \in 0 .. 1 :
         \E xs \in [1 .. l -> 0 .. MaxX] :
            LET ys == [i \in 1 .. l + extra |-> 0]
                r  == Smooth(intr, xs, ys, window)
            IN  /\ args' = [xs |-> xs, ys |-> ys, window |-> window]
                /\ intr' = r.caches
                /\ panic' = r.panic
                /\ pc' = IF r.panic = "none" THEN "smoothed" ELSE "panic"
                /\ gs' = IF r.panic = "none" /\ r.ok
                         THEN [ok |-> TRUE, vals |-> r.vals, derivs |-> r.derivs]
                         ELSE [ok |-> FALSE]
                /\ log' = Append(log, window)
    /\ UNCHANGED << pos, step >>

NextSmooth == CallSmooth

SpecSmooth == InitSmooth /\ [][NextSmooth]_vars

\* C20: the derivative kernel a Smooth call with window w convolves with is
\* the kernel built for the sample spacing dx of that call's xs.
C20_KernelCache ==
    (pc = "smoothed" /\ gs.ok) =>
        gs.derivs.kernel =
            NewSavGolDerivKernel(Smooth_dx(args.xs), 1, 4, args.window)

(***************************************************************************)
(* The order of deposition: a program that builds a CIC, a cellCenter or  *)
(* a sobol interpolator and calls Interpolate once.  (mcarlo runs the same *)
(* loop over ids and dir; it is part of SpecTetra.)                        *)
(***************************************************************************)
\* Interpolate of a cellCenter interpolator with the ids in descending order
BeginInterpolateDescending ==
    /\ pc = "ready"
    /\ intr.kind = "cellCenter"
    /\ \E mass \in Masses, ids \in IdsSet :
         args' = [mass |-> mass, ids |-> [n \in DOMAIN ids |-> ids[Len(ids) + 1 - n]],
                  xs |-> << >>]
    /\ pos' = [i |-> 1, dir |-> 0]
    /\ pc' = "loop"
    /\ UNCHANGED << intr, gs, step, log, panic >>

NextOrder ==
    \/ NewCloudInCell
    \/ NewCellCenter
    \/ NewSobolSequence
    \/ NewGrids
    \/ PointInterpolate
    \/ BeginInterpolate
    \/ BeginInterpolateDescending
    \/ CellCenterStep
    \/ SobolStep

SpecOrder == Init /\ [][NextOrder]_vars

\* write number w (from 0) of a CIC call: the point, the grid and the corner
\* it belongs to, the cell and the amount
CICWriteAt(w) ==
    LET n    == (w \div (8 * Len(gs))) + 1
        gIdx == ((w \div 8) % Len(gs)) + 1
        bit  == << w % 2, (w \div 2) % 2, (w \div 4) % 2 >>
        q(d) == RSub(RDiv(args.xs[n][d], gs[1].CellWidth), R(1, 2))
        nb(d) == Grid_nbrs(gs[1], RFloor(q(d)))
        wt(d) == IF bit[d] = 1 THEN RSub(q(d), RInt(RFloor(q(d))))
                 ELSE RSub(One, RSub(q(d), RInt(RFloor(q(d)))))
    IN  [g |-> gIdx,
         cell |-> << nb(1)[bit[1] + 1], nb(2)[bit[2] + 1], nb(3)[bit[3] + 1] >>,
         frac |-> RMul(RMul(RMul(wt(1), wt(2)), wt(3)),
                       RDiv(args.mass, gs[1].CellVolume))]

\* the writes of a finished CIC call are, point by point in input order and
\* grid by grid, the eight corners 000, 100, 010, 110, 001, 101, 011, 111
CICOrder ==
    (pc = "done" /\ intr.kind = "cic") =>
        /\ Len(log) = 8 * Len(gs) * Len(args.xs)
        /\ \A w \in 0 .. Len(log) - 1 :
             /\ log[w + 1].g = CICWriteAt(w).g
             /\ log[w + 1].cell = CICWriteAt(w).cell
             /\ log[w + 1].frac = CICWriteAt(w).frac

\* a tetra-based call starts at the first id and dir 0; every iteration is
\* the one of the id and dir at the loop position, and is followed by the
\* next dir of the same id, or after dir 5 by dir 0 of the next id of the
\* caller's list; the call returns after dir 5 of the last id
TetraOrder ==
    /\ (pc = "ready" /\ pc' = "loop") => pos' = [i |-> 1, dir |-> 0]
    /\ pc = "loop" =>
         /\ step'.id = args.ids[pos.i] /\ step'.dir = pos.dir
         /\ pc' # "panic" =>
              /\ pos' = IF pos.dir < 5 THEN [i |-> pos.i, dir |-> pos.dir + 1]
                        ELSE [i |-> pos.i + 1, dir |-> 0]
              /\ (pc' = "done") <=> (pos.i = Len(args.ids) /\ pos.dir = 5)
              /\ pc' \in { "loop", "done" }

C18_WitnessCIC ==
    /\ pc = "done"
    /\ intr.kind = "cic"
    /\ Len(args.xs) = 2 /\ Len(gs) = 2
    /\ args.xs[1] # args.xs[2]
    /\ \E w \in 1 .. 8 : log[w].frac # Zero /\ log[w].cell # log[1].cell

=============================================================================
